---- MODULE Spec2Model ----
(***************************************************************************)
(* Hierarchical wallet ledger and profit-distribution engine               *)
(* (app/services/wallet.py, app/services/purchases.py,                     *)
(* app/services/pricing.py and the routers that write pricing edges).      *)
(*                                                                         *)
(* The database is modelled by its committed contents.  A wallet request   *)
(* is a transaction slot that walks through the statements of its service  *)
(* function: validation, account creation, row locking (SELECT ... FOR     *)
(* UPDATE), the computation under the locks, and commit or rollback.       *)
(* Spec runs the wallet requests concurrently over a fixed price table;    *)
(* SpecPricing runs the requests that write the pricing tables.            *)
(***************************************************************************)
EXTENDS Integers, Sequences, FiniteSets, TLC

(***************************************************************************)
(* Bounds of the model.                                                    *)
(***************************************************************************)
MaxTx == 2          \* transactions that get a tx_id in one behaviour
MaxAmt == 1         \* largest amount / target balance a request names
MaxQty == 2         \* largest purchase quantity

(***************************************************************************)
(* The user hierarchy.  0 stands for NULL (no parent, no related user).    *)
(* The wallet and the pricing specifications run on the chain              *)
(* root(1) -> 2 -> 3 -> 4; the tree specification builds the hierarchy     *)
(* with the create requests.                                               *)
(***************************************************************************)
UserIds == {1, 2, 3, 4}
NoUser == 0
Slots == {1, 2}
NoPrice == -1       \* no row in the pricing table

role(u) == IF u = 1 THEN "admin" ELSE "seller"

VARIABLES
    exists,          \* users rows: the set of user ids present
    is_active,       \* users.is_active
    user_parent,     \* users.parent_id, NoUser for NULL
    user_path,       \* users.path: the ltree text, a sequence of characters
    user_depth,      \* users.depth
    users_id_seq,    \* the last value of the sequence public.users_id_seq
    wallet_accounts, \* wallet_accounts rows: the user ids that have one
    balance_cents,   \* wallet_accounts.balance_cents per user (0 while there is no row)
    ledger,          \* wallet_ledger rows
    orders,          \* orders rows
    coupons,         \* coupons rows
    order_items,     \* order_items rows: the coupon codes of every order
    coupon_events,   \* coupon_events rows, in the order of their ids
    uuid_tape,       \* the candidates the random generator yields, repeated in a cycle
    uuid_pos,        \* how many candidates have been drawn (modulo the cycle)
    base_price,      \* admin_plan_base_prices.base_price_cents, NoPrice if no row
    edges,           \* seller_edge_plan_prices: <<parent, child>> -> row or NoEdge
    seller_plan_prices, \* seller_plan_prices.price_cents per seller, NoPrice if no row
    nextTx,          \* number of tx_ids handed out so far
    txn,             \* the in-flight request of every slot
    result           \* the request that finished last: its kind and its outcome

vars == <<exists, is_active, user_parent, user_path, user_depth, users_id_seq,
          wallet_accounts, balance_cents, ledger, orders, coupons,
          order_items, coupon_events, uuid_tape, uuid_pos,
          base_price, edges, seller_plan_prices, nextTx, txn, result>>

walletVars == <<exists, is_active, wallet_accounts, balance_cents, ledger, orders, coupons>>
pricingVars == <<base_price, edges, seller_plan_prices>>
treeVars == <<user_parent, user_path, user_depth, users_id_seq>>
couponVars == <<order_items, coupon_events, uuid_tape, uuid_pos>>

parent_id(u) == user_parent[u]

\* the ids from the root down to the user, following parent_id
RECURSIVE path(_)
path(u) == IF parent_id(u) = NoUser THEN <<u>> ELSE Append(path(parent_id(u)), u)

\* str(int): the decimal digits of a non-negative number
Digit(n) == <<"0", "1", "2", "3", "4", "5", "6", "7", "8", "9">>[n + 1]

RECURSIVE Str(_)
Str(n) == IF n < 10 THEN <<Digit(n)>> ELSE Append(Str(n \div 10), Digit(n % 10))

\* int(text): the number a text of decimal digits denotes, NoUser for any other text
RECURSIVE ParseInt(_)
ParseInt(s) ==
    IF s = <<>> \/ \E i \in 1..Len(s) : \A n \in 0..9 : s[i] # Digit(n) THEN NoUser
    ELSE LET last == CHOOSE n \in 0..9 : Digit(n) = s[Len(s)]
         IN IF Len(s) = 1 THEN last ELSE 10 * ParseInt(SubSeq(s, 1, Len(s) - 1)) + last

\* text.split(sep): the pieces of the text between the separators
RECURSIVE Split(_, _)
Split(s, sep) ==
    IF \A i \in 1..Len(s) : s[i] # sep THEN <<s>>
    ELSE LET i == CHOOSE k \in 1..Len(s) : s[k] = sep /\ \A j \in 1..(k - 1) : s[j] # sep
         IN <<SubSeq(s, 1, i - 1)>> \o Split(SubSeq(s, i + 1, Len(s)), sep)

\* tree._ltree_label
_ltree_label(user_id) == <<"u">> \o Str(user_id)

\* a path that forgets the parent's path
LabelAlone(parent_path, user_id) == _ltree_label(user_id)

\* tree.build_user_path; the empty text stands for a NULL or empty parent path
build_user_path(parent_path, user_id) ==
    IF parent_path = <<>> THEN _ltree_label(user_id)
    ELSE parent_path \o <<".">> \o _ltree_label(user_id)

\* the labels of an ltree value
Labels(p) == IF p = <<>> THEN <<>> ELSE Split(p, ".")

\* ltree nlevel(p)
nlevel(p) == Len(Labels(p))

\* ltree  a <@ b  on the stored paths: a is b or a descendant of b
IsDescendantOrSelf(a, b) ==
    /\ nlevel(user_path[a]) >= nlevel(user_path[b])
    /\ SubSeq(Labels(user_path[a]), 1, nlevel(user_path[b])) = Labels(user_path[b])


NoEdge == [price_cents |-> NoPrice, is_admin_override |-> FALSE]

\* the (parent_user_id, child_user_id) keys the operations can write: the
\* links of a parent to a user created after it, and <<1, 1>>, which
\* admin_update_seller writes when it is called on the root itself
EdgeKeys == {k \in UserIds \X UserIds : k[1] < k[2]} \cup {<<1, 1>>}

EdgePrice(p, c) == IF <<p, c>> \in EdgeKeys THEN edges[<<p, c>>].price_cents ELSE NoPrice

(***************************************************************************)
(* Small helpers.                                                          *)
(***************************************************************************)
\* the injective sequences over S: the orders in which a scan can meet the rows
Perms(S) == {q \in [1..Cardinality(S) -> S] : \A i, j \in 1..Cardinality(S) : q[i] = q[j] => i = j}

Min(S) == CHOOSE x \in S : \A y \in S : x <= y

\* sorted(...) of a set of ids
RECURSIVE SortedSeq(_)
SortedSeq(S) == IF S = {} THEN <<>> ELSE <<Min(S)>> \o SortedSeq(S \ {Min(S)})

RECURSIVE SumOver(_, _)
SumOver(f, S) == IF S = {} THEN 0 ELSE LET x == CHOOSE y \in S : TRUE IN f[x] + SumOver(f, S \ {x})

Max0(x) == IF x > 0 THEN x ELSE 0

(***************************************************************************)
(* Requests.                                                               *)
(***************************************************************************)
NoCredits == [u \in {} |-> 0]

Idle == [pc |-> "idle", kind |-> "none", actor |-> NoUser, from_user_id |-> NoUser,
         to_user_id |-> NoUser, amount |-> 0, plan_id |-> 0, tx_id |-> 0, ids |-> {}, lockseq |-> <<>>,
         held |-> {}, created |-> {}, insert_uid |-> NoUser, seen |-> [u \in UserIds |-> 0],
         unit_price_cents |-> 0, base_cents |-> 0, credits |-> NoCredits, subtree_ids |-> {},
         meta_kind |-> "none", current_child |-> NoUser, sell_price |-> 0]

\* core/deps.get_current_user: the actor of a request is an existing, active user
get_current_user(u) == u \in exists /\ is_active[u]

\* a request leaves the service function with an exception before it touched a row
Reject(kind, err) ==
    /\ result' = [kind |-> kind, status |-> err]
    /\ UNCHANGED <<walletVars, pricingVars, treeVars, couponVars, nextTx, txn>>

\* a request reaches its _lock_accounts call: uuid4() names the transaction
Enter(t, req) ==
    /\ nextTx' = nextTx + 1
    /\ txn' = [txn EXCEPT ![t] = [req EXCEPT !.pc = "ensure", !.tx_id = nextTx + 1]]
    /\ UNCHANGED <<walletVars, pricingVars, treeVars, couponVars, result>>

\* a slot can take a request: the lower slots are busy (slots are interchangeable)
CanBegin(t) ==
    /\ txn[t].pc = "idle"
    /\ nextTx < MaxTx
    /\ \A s \in Slots : s < t => txn[s].pc # "idle"

(***************************************************************************)
(* wallet.py: the entry of every balance operation, up to _lock_accounts.  *)
(***************************************************************************)
admin_topup(t, admin_user, target_user_id, amount_cents) ==
    /\ CanBegin(t) /\ get_current_user(admin_user)
    /\ IF role(admin_user) # "admin" THEN Reject("topup", "WalletError")
       ELSE IF amount_cents <= 0 THEN Reject("topup", "WalletError")
       ELSE Enter(t, [Idle EXCEPT !.kind = "topup", !.actor = admin_user,
                                  !.to_user_id = target_user_id, !.amount = amount_cents,
                                  !.ids = {target_user_id}])

transfer_between_users(t, actor, from_user_id, to_user_id, amount_cents, meta_kind) ==
    IF amount_cents <= 0 THEN Reject("transfer", "WalletError")
    ELSE IF from_user_id = to_user_id THEN Reject("transfer", "WalletError")
    ELSE Enter(t, [Idle EXCEPT !.kind = "transfer", !.meta_kind = meta_kind,
                               !.from_user_id = from_user_id, !.to_user_id = to_user_id,
                               !.amount = amount_cents, !.ids = {from_user_id, to_user_id}])

transfer_to_child(t, parent_user, child_user_id, amount_cents) ==
    /\ CanBegin(t) /\ get_current_user(parent_user)
    /\ IF amount_cents <= 0 THEN Reject("transfer", "WalletError")
       ELSE IF child_user_id \notin exists THEN Reject("transfer", "WalletError")
       ELSE IF parent_id(child_user_id) # parent_user THEN Reject("transfer", "WalletError")
       ELSE transfer_between_users(t, parent_user, parent_user, child_user_id, amount_cents,
                                   "transfer_to_child")

adjust_child_balance_down(t, parent_user, child_user_id, amount_cents) ==
    /\ CanBegin(t) /\ get_current_user(parent_user)
    /\ IF amount_cents <= 0 THEN Reject("transfer", "WalletError")
       ELSE IF child_user_id \notin exists THEN Reject("transfer", "WalletError")
       ELSE IF parent_id(child_user_id) # parent_user THEN Reject("transfer", "WalletError")
       ELSE transfer_between_users(t, parent_user, child_user_id, parent_user, amount_cents,
                                   "adjust_child_balance_down")

adjust_child_balance_up(t, parent_user, child_user_id, amount_cents) ==
    /\ CanBegin(t) /\ get_current_user(parent_user)
    /\ IF amount_cents <= 0 THEN Reject("transfer", "WalletError")
       ELSE IF child_user_id \notin exists THEN Reject("transfer", "WalletError")
       ELSE IF parent_id(child_user_id) # parent_user THEN Reject("transfer", "WalletError")
       ELSE transfer_between_users(t, parent_user, parent_user, child_user_id, amount_cents,
                                   "adjust_child_balance_up")

transfer_from_child(t, parent_user, child_user_id, amount_cents) ==
    /\ CanBegin(t) /\ get_current_user(parent_user)
    /\ IF amount_cents <= 0 THEN Reject("transfer", "WalletError")
       ELSE IF child_user_id \notin exists THEN Reject("transfer", "WalletError")
       ELSE IF parent_id(child_user_id) # parent_user THEN Reject("transfer", "WalletError")
       ELSE transfer_between_users(t, parent_user, child_user_id, parent_user, amount_cents,
                                   "transfer_from_child")

\* POST /wallet/adjust-child-balance: the body's target_balance_cents is handed
\* to adjust_child_balance_down as its amount_cents
adjust_direct_child_balance(t, current_user, child_user_id, target_balance_cents) ==
    /\ CanBegin(t) /\ get_current_user(current_user)
    /\ IF child_user_id \notin exists THEN Reject("transfer", "HTTP404")
       ELSE adjust_child_balance_down(t, current_user, child_user_id, target_balance_cents)

admin_set_balance_via_parent(t, admin_user, target_user_id, target_balance_cents) ==
    /\ CanBegin(t) /\ get_current_user(admin_user)
    /\ IF role(admin_user) # "admin" THEN Reject("set_balance", "WalletError")
       ELSE IF target_balance_cents < 0 THEN Reject("set_balance", "WalletError")
       ELSE IF target_user_id \notin exists THEN Reject("set_balance", "WalletError")
       ELSE IF parent_id(target_user_id) = NoUser THEN Reject("set_balance", "WalletError")
       ELSE Enter(t, [Idle EXCEPT !.kind = "set_balance",
                                  !.from_user_id = parent_id(target_user_id),
                                  !.to_user_id = target_user_id,
                                  !.amount = target_balance_cents,
                                  !.ids = {target_user_id, parent_id(target_user_id)}])

seller_set_balance_via_parent(t, seller_user, target_user_id, target_balance_cents) ==
    /\ CanBegin(t) /\ get_current_user(seller_user)
    /\ IF role(seller_user) # "seller" THEN Reject("set_balance", "WalletError")
       ELSE IF target_balance_cents < 0 THEN Reject("set_balance", "WalletError")
       ELSE IF target_user_id \notin exists THEN Reject("set_balance", "WalletError")
       ELSE IF parent_id(target_user_id) # seller_user THEN Reject("set_balance", "WalletError")
       ELSE Enter(t, [Idle EXCEPT !.kind = "set_balance",
                                  !.from_user_id = seller_user,
                                  !.to_user_id = target_user_id,
                                  !.amount = target_balance_cents,
                                  !.ids = {target_user_id, seller_user}])

seller_delete_user_return_balance_to_parent(t, seller_user, target_user_id) ==
    /\ CanBegin(t) /\ get_current_user(seller_user)
    /\ IF role(seller_user) # "seller" THEN Reject("seller_delete", "WalletError")
       ELSE IF target_user_id \notin exists THEN Reject("seller_delete", "WalletError")
       ELSE IF parent_id(target_user_id) # seller_user THEN Reject("seller_delete", "WalletError")
       ELSE LET subtree == {u \in exists : IsDescendantOrSelf(u, target_user_id)}
            IN Enter(t, [Idle EXCEPT !.kind = "seller_delete",
                                     !.from_user_id = target_user_id,
                                     !.to_user_id = seller_user,
                                     !.subtree_ids = subtree,
                                     !.ids = {seller_user} \cup subtree])

admin_delete_user_return_balance_to_parent(t, admin_user, target_user_id) ==
    /\ CanBegin(t) /\ get_current_user(admin_user)
    /\ IF role(admin_user) # "admin" THEN Reject("admin_delete", "WalletError")
       ELSE IF target_user_id \notin exists THEN Reject("admin_delete", "WalletError")
       ELSE IF parent_id(target_user_id) = NoUser THEN Reject("admin_delete", "WalletError")
       ELSE Enter(t, [Idle EXCEPT !.kind = "admin_delete",
                                  !.from_user_id = target_user_id,
                                  !.to_user_id = parent_id(target_user_id),
                                  !.ids = {target_user_id, parent_id(target_user_id)}])

(***************************************************************************)
(* purchases.py: the price walk from the buyer up to the admin, made       *)
(* before any account is locked.                                           *)
(***************************************************************************)
\* the catalogue (plans.is_active): plans 1 and 2 are on sale, plan 3 is
\* withdrawn.  The variables hold the pricing rows of plan 1, the plan the
\* pricing requests of the model name.  The rows of plan 2 stay as they are: a
\* base price of 2 and an edge root -> 2 of 1, which sells below the base price.
PlanIds == {1, 2, 3}
plan_is_active == (1 :> TRUE) @@ (2 :> TRUE) @@ (3 :> FALSE)
Plan2Base == 2
Plan2Edges == (<<1, 2>> :> 1)

_get_plan(plan_id) == plan_id \in DOMAIN plan_is_active /\ plan_is_active[plan_id]

_get_admin_base_price_cents(plan_id) ==
    IF plan_id = 1 THEN base_price
    ELSE IF plan_id = 2 THEN Plan2Base
    ELSE NoPrice

_get_edge_price_cents(p, c, plan_id) ==
    IF plan_id = 1 THEN EdgePrice(p, c)
    ELSE IF plan_id = 2 /\ <<p, c>> \in DOMAIN Plan2Edges THEN Plan2Edges[<<p, c>>]
    ELSE NoPrice

\* a credit that replaces what the user was credited before
OverwriteCredit(cr, u, cents) ==
    IF u \in DOMAIN cr THEN [cr EXCEPT ![u] = cents] ELSE cr @@ (u :> cents)

AddCredit(cr, u, cents) ==
    IF u \in DOMAIN cr THEN [cr EXCEPT ![u] = @ + cents] ELSE cr @@ (u :> cents)

WalkFailed == [ok |-> FALSE, credits |-> NoCredits]

\* a profit that is never below zero
ClampedProfit(sell_price, cost) == Max0(sell_price - cost)

\* the profit of one level of the walk; a negative profit stops the purchase
LevelProfit(sell_price, cost) == sell_price - cost

\* the `while True` loop: credits_by_user_unit after the walk from current_child
RECURSIVE Walk(_, _, _, _)
Walk(current_child, plan_id, base_cents, cr) ==
    LET p == parent_id(current_child) IN
    IF p = NoUser \/ p \notin exists THEN WalkFailed
    ELSE LET sell_price == _get_edge_price_cents(p, current_child, plan_id)
             cost == IF role(p) = "admin" THEN base_cents
                     ELSE IF parent_id(p) = NoUser THEN NoPrice
                     ELSE _get_edge_price_cents(parent_id(p), p, plan_id)
             profit == LevelProfit(sell_price, cost)
             cr1 == IF profit > 0 THEN AddCredit(cr, p, profit) ELSE cr
         IN IF sell_price = NoPrice \/ cost = NoPrice THEN WalkFailed
            ELSE IF profit < 0 THEN WalkFailed
            ELSE IF role(p) = "admin"
                 THEN [ok |-> TRUE, credits |-> AddCredit(cr1, p, base_cents)]
                 ELSE Walk(p, plan_id, base_cents, cr1)

purchase_plan_and_distribute(t, buyer, plan_id, quantity) ==
    /\ CanBegin(t) /\ get_current_user(buyer)
    /\ IF quantity < 1 THEN Reject("purchase", "PurchaseError")
       ELSE IF ~_get_plan(plan_id) THEN Reject("purchase", "PurchaseError")
       ELSE IF parent_id(buyer) = NoUser THEN Reject("purchase", "PurchaseError")
       ELSE LET unit_price_cents == _get_edge_price_cents(parent_id(buyer), buyer, plan_id)
                base_cents == _get_admin_base_price_cents(plan_id)
                w == Walk(buyer, plan_id, base_cents, NoCredits)
            IN IF unit_price_cents = NoPrice \/ base_cents = NoPrice THEN Reject("purchase", "PurchaseError")
               ELSE IF ~w.ok THEN Reject("purchase", "PurchaseError")
               ELSE Enter(t, [Idle EXCEPT !.kind = "purchase",
                                          !.from_user_id = buyer, !.amount = quantity,
                                          !.plan_id = plan_id,
                                          !.unit_price_cents = unit_price_cents,
                                          !.base_cents = base_cents,
                                          !.credits = w.credits,
                                          !.ids = {buyer} \cup DOMAIN w.credits])

(***************************************************************************)
(* wallet.py: _ensure_wallet_account and _lock_accounts.                   *)
(***************************************************************************)
\* db.rollback(): the request ends, its locks and uncommitted rows are gone
Rollback(t, err) ==
    /\ txn' = [txn EXCEPT ![t] = Idle]
    /\ result' = [kind |-> txn[t].kind, status |-> err]
    /\ UNCHANGED <<walletVars, pricingVars, treeVars, couponVars, nextTx>>

\* accounts of the request that have no committed row and that it has not inserted
MissingAccounts(t) ==
    {u \in txn[t].ids : u \notin wallet_accounts /\ u \notin txn[t].created}

\* another request holds an uncommitted INSERT of the account of u
InsertPending(t, u) == \E s \in Slots \ {t} : u \in txn[s].created

\* the loop `for uid in ids: await _ensure_wallet_account(db, uid)`.  A missing
\* account is inserted; the INSERT waits while another request's uncommitted
\* INSERT of the same primary key is in flight.  The scan order of the locking
\* SELECT is fixed when that statement starts.
_ensure_wallet_account(t) ==
    /\ txn[t].pc = "ensure"
    /\ IF \E u \in txn[t].ids : u \notin exists
       THEN Rollback(t, "WalletError")
       ELSE IF \E u \in MissingAccounts(t) : InsertPending(t, u)
       THEN /\ txn' = [txn EXCEPT ![t].pc = "insert_wait",
                                  ![t].insert_uid = Min({u \in MissingAccounts(t) : InsertPending(t, u)})]
            /\ UNCHANGED <<walletVars, pricingVars, treeVars, couponVars, nextTx, result>>
       ELSE /\ \E order \in Perms(txn[t].ids) :
                 txn' = [txn EXCEPT ![t].pc = IF txn[t].kind = "get_balance"
                                                 THEN "select" ELSE "lock",
                                    ![t].created = @ \cup MissingAccounts(t),
                                    ![t].lockseq = order]
            /\ UNCHANGED <<walletVars, pricingVars, treeVars, couponVars, nextTx, result>>

\* the blocked INSERT returns: a unique violation (IntegrityError, re-raised as
\* WalletError) when the other request committed its row, success when it rolled back
InsertReturns(t) ==
    /\ txn[t].pc = "insert_wait"
    /\ ~InsertPending(t, txn[t].insert_uid)
    /\ IF txn[t].insert_uid \in wallet_accounts
       THEN Rollback(t, "WalletError")
       ELSE /\ txn' = [txn EXCEPT ![t].pc = "ensure", ![t].insert_uid = NoUser]
            /\ UNCHANGED <<walletVars, pricingVars, treeVars, couponVars, nextTx, result>>

\* a plain SELECT: the row is read whoever holds its lock
RowLockIgnored(t, u) == TRUE

\* SELECT ... FOR UPDATE takes an exclusive row lock: no other request holds it
RowLockFree(t, u) == \A s \in Slots \ {t} : u \notin txn[s].held

\* the locking SELECT has no ORDER BY: it locks the rows in the order its scan
\* meets them.  One row is locked per step; the value returned for the row is
\* the committed one at the moment the lock is granted.
LockRow(t) ==
    /\ txn[t].pc = "lock"
    /\ LET u == Head(txn[t].lockseq) IN
       /\ RowLockFree(t, u)
       /\ IF u \notin wallet_accounts /\ u \notin txn[t].created
          THEN Rollback(t, "WalletError")
          ELSE /\ txn' = [txn EXCEPT
                     ![t].held = @ \cup {u},
                     ![t].seen[u] = IF u \in txn[t].created THEN 0 ELSE balance_cents[u],
                     ![t].lockseq = Tail(@),
                     ![t].pc = IF Len(txn[t].lockseq) = 1 THEN "locked" ELSE "lock"]
               /\ UNCHANGED <<walletVars, pricingVars, treeVars, couponVars, nextTx, result>>

\* request t waits for a row lock that request s holds
WaitsFor(t, s) ==
    /\ t # s
    /\ txn[t].pc = "lock"
    /\ Head(txn[t].lockseq) \in txn[s].held

Deadlocked(t) == \E s \in Slots : WaitsFor(t, s) /\ WaitsFor(s, t)

\* the database's deadlock detector aborts one of the waiting transactions
DeadlockAbort(t) ==
    /\ Deadlocked(t)
    /\ Rollback(t, "DeadlockDetected")

(***************************************************************************)
(* The computation under the locks: every new balance is computed from the *)
(* balance read when the row was locked.                                   *)
(***************************************************************************)
Row(tx_id, user_id, entry_kind, amount_cents, related_user_id) ==
    [tx_id |-> tx_id, user_id |-> user_id, entry_kind |-> entry_kind,
     amount_cents |-> amount_cents, related_user_id |-> related_user_id]

\* a transfer that records the receiving side only
TransferInOnly(tx_id, from_user_id, to_user_id, amount_cents) ==
    {Row(tx_id, to_user_id, "transfer_in", amount_cents, from_user_id)}

\* a transfer_out / transfer_in pair of one tx_id
TransferPair(tx_id, from_user_id, to_user_id, amount_cents) ==
    {Row(tx_id, from_user_id, "transfer_out", -amount_cents, to_user_id),
     Row(tx_id, to_user_id, "transfer_in", amount_cents, from_user_id)}

NoWrites == [u \in {} |-> 0]

\* purchases.py 153-156: credits_by_user_scaled
ScaledCredits(r) == [u \in DOMAIN r.credits |-> r.credits[u] * r.amount]

total_paid_cents(r) == r.unit_price_cents * r.amount

\* one row per credited user: the root's base cost and margin in one row
CreditRowsMerged(r) ==
    {Row(r.tx_id, u, IF role(u) = "admin" THEN "admin_base_credit" ELSE "profit_credit",
         ScaledCredits(r)[u], r.from_user_id) : u \in DOMAIN r.credits}

\* purchases.py 203-265: the ledger rows of the credits
CreditRows(r) ==
    UNION {
        IF role(u) = "admin"
        THEN LET base_total == r.base_cents * r.amount
                 admin_profit == Max0(ScaledCredits(r)[u] - base_total)
             IN {Row(r.tx_id, u, "admin_base_credit", base_total, r.from_user_id)}
                \cup (IF admin_profit > 0
                      THEN {Row(r.tx_id, u, "profit_credit", admin_profit, r.from_user_id)}
                      ELSE {})
        ELSE {Row(r.tx_id, u, "profit_credit", ScaledCredits(r)[u], r.from_user_id)}
        : u \in DOMAIN r.credits}

\* credits written from the unit amounts of the walk, the quantity left out
PurchaseWritesUnscaled(r) ==
    (r.from_user_id :> r.seen[r.from_user_id] - total_paid_cents(r))
    @@ [u \in DOMAIN r.credits |-> r.seen[u] + r.credits[u]]

\* purchases.py 176-217: the UPDATEs of the buyer's and the credited accounts
PurchaseWrites(r) ==
    (r.from_user_id :> r.seen[r.from_user_id] - total_paid_cents(r))
    @@ [u \in DOMAIN r.credits |-> r.seen[u] + ScaledCredits(r)[u]]

\* wallet.py 659-726: the loop over subtree_ids, with owner_acc kept in sync
RECURSIVE ReturnLoop(_, _, _)
ReturnLoop(r, todo, acc) ==
    IF todo = <<>> THEN acc
    ELSE LET uid == Head(todo)
             bal == r.seen[uid]
         IN IF uid = r.to_user_id \/ bal <= 0
            THEN ReturnLoop(r, Tail(todo), acc)
            ELSE ReturnLoop(r, Tail(todo),
                     [writes |-> [u \in DOMAIN acc.writes \cup {uid, r.to_user_id} |->
                                     IF u = uid THEN 0
                                     ELSE IF u = r.to_user_id THEN acc.owner_balance + bal
                                     ELSE acc.writes[u]],
                      rows |-> acc.rows \cup TransferPair(r.tx_id, uid, r.to_user_id, bal),
                      owner_balance |-> acc.owner_balance + bal])

\* a set-balance that stores the target balance in the account row directly
SetBalanceOverwrite(r) ==
    [writes |-> (r.to_user_id :> r.amount), rows |-> {}]

\* wallet.py 254-356 and 501-600: the delta between the balance read under the
\* lock and the target moves between the parent and the target
SetBalanceEffect(r) ==
    LET current == r.seen[r.to_user_id]
        target == r.amount
    IN IF target > current
       THEN [writes |-> (r.from_user_id :> r.seen[r.from_user_id] - (target - current))
                        @@ (r.to_user_id :> current + (target - current)),
             rows |-> TransferPair(r.tx_id, r.from_user_id, r.to_user_id, target - current)]
       ELSE [writes |-> (r.from_user_id :> r.seen[r.from_user_id] + (current - target))
                        @@ (r.to_user_id :> current - (current - target)),
             rows |-> TransferPair(r.tx_id, r.to_user_id, r.from_user_id, current - target)]

\* what request r writes: the UPDATEs of wallet_accounts (absolute values) and
\* the wallet_ledger rows it adds
Effect(r) ==
    IF r.kind = "topup" THEN
        [writes |-> (r.to_user_id :> r.seen[r.to_user_id] + r.amount),
         rows |-> {Row(r.tx_id, r.to_user_id, "topup", r.amount, r.actor)}]
    ELSE IF r.kind = "transfer" THEN
        [writes |-> (r.from_user_id :> r.seen[r.from_user_id] - r.amount)
                    @@ (r.to_user_id :> r.seen[r.to_user_id] + r.amount),
         rows |-> TransferPair(r.tx_id, r.from_user_id, r.to_user_id, r.amount)]
    ELSE IF r.kind = "set_balance" THEN SetBalanceEffect(r)
    ELSE IF r.kind = "purchase" THEN
        [writes |-> PurchaseWrites(r),
         rows |-> {Row(r.tx_id, r.from_user_id, "purchase_debit", -total_paid_cents(r),
                       parent_id(r.from_user_id))}
                  \cup CreditRows(r)]
    ELSE IF r.kind = "seller_delete" THEN
        LET out == ReturnLoop(r, SortedSeq(r.subtree_ids),
                              [writes |-> NoWrites, rows |-> {},
                               owner_balance |-> r.seen[r.to_user_id]])
        IN [writes |-> out.writes, rows |-> out.rows]
    ELSE IF r.kind = "admin_delete" THEN
        LET child_balance == r.seen[r.from_user_id]
        IN IF child_balance > 0
           THEN [writes |-> (r.to_user_id :> r.seen[r.to_user_id] + child_balance)
                            @@ (r.from_user_id :> 0),
                 rows |-> TransferPair(r.tx_id, r.from_user_id, r.to_user_id, child_balance)]
           ELSE [writes |-> NoWrites, rows |-> {}]
    ELSE [writes |-> NoWrites, rows |-> {}]

\* an operation that writes without comparing the debit with the balance
CheckNothing(r) == "ok"

\* the check the operation makes under the locks before it writes
CheckUnderLock(r) ==
    IF r.kind = "transfer" THEN
        IF r.seen[r.from_user_id] < r.amount THEN "InsufficientBalance" ELSE "ok"
    ELSE IF r.kind = "set_balance" THEN
        IF r.amount = r.seen[r.to_user_id] THEN "WalletError"
        ELSE IF r.amount > r.seen[r.to_user_id]
                /\ r.seen[r.from_user_id] < r.amount - r.seen[r.to_user_id]
             THEN "InsufficientBalance"
        ELSE "ok"
    ELSE IF r.kind = "purchase" THEN
        IF r.seen[r.from_user_id] < total_paid_cents(r) THEN "InsufficientBalance" ELSE "ok"
    ELSE "ok"

\* the statements between _lock_accounts and the end of the writes
Apply(t) ==
    /\ txn[t].pc = "locked"
    /\ IF CheckUnderLock(txn[t]) # "ok"
       THEN Rollback(t, CheckUnderLock(txn[t]))
       ELSE /\ txn' = [txn EXCEPT ![t].pc = "applied"]
            /\ UNCHANGED <<walletVars, pricingVars, treeVars, couponVars, nextTx, result>>

(***************************************************************************)
(* Commit and rollback.                                                    *)
(***************************************************************************)
\* a purchase whose total_credits is never compared with the debit
MismatchUnchecked(r) == FALSE

\* purchases.py 204-270: total_credits against the debit
ConservationMismatch(r) ==
    r.kind = "purchase" /\ SumOver(ScaledCredits(r), DOMAIN r.credits) # total_paid_cents(r)

\* DELETE FROM users is refused while a row without ON DELETE action references
\* the user: users.parent_id, orders.buyer_user_id, coupons.owner_user_id.  The
\* constraints of seller_edge_plan_prices exist in the database only and are
\* not declared in the models; the delete is taken to go through only for a
\* user no edge row names.
DeleteRefused(r) ==
    /\ r.kind = "admin_delete"
    /\ \/ \E c \in exists : parent_id(c) = r.from_user_id
       \/ \E o \in orders : o.buyer_user_id = r.from_user_id
       \/ \E c \in coupons : c.owner_user_id = r.from_user_id
       \/ \E k \in EdgeKeys : (k[1] = r.from_user_id \/ k[2] = r.from_user_id)
                              /\ edges[k] # NoEdge

\* wallet_ledger.user_id is ON DELETE CASCADE, related_user_id is ON DELETE SET
\* NULL; wallet_accounts and seller_plan_prices rows of the user go with it
CascadeDelete(rows, deleted) ==
    {IF row.related_user_id \in deleted THEN [row EXCEPT !.related_user_id = NoUser] ELSE row
        : row \in {x \in rows : x.user_id \notin deleted}}

NewOrders(r) ==
    IF r.kind = "purchase"
    THEN {[tx_id |-> r.tx_id, buyer_user_id |-> r.from_user_id, quantity |-> r.amount,
           unit_price_cents |-> r.unit_price_cents,
           total_paid_cents |-> total_paid_cents(r), status |-> "paid"]}
    ELSE {}

\* no coupon code: the attempts of one coupon are used up
NoCode == 0

\* purchases.py 293: the candidates tried for one coupon
MaxAttempts == 20

\* uuid4().hex[:8]: the candidate drawn at position pos of the tape
uuid4(pos) == uuid_tape[(pos % Len(uuid_tape)) + 1]

CouponCodes == {c.coupon_code : c \in coupons}

\* a coupon takes the first candidate, whether a coupon has the code or not
PickCodeUnchecked(taken, pos, attempt) == [coupon_code |-> uuid4(pos), pos |-> pos + 1]

\* purchases.py 293-303: up to 20 candidates, each looked up in coupons
RECURSIVE PickCode(_, _, _)
PickCode(taken, pos, attempt) ==
    IF attempt = MaxAttempts THEN [coupon_code |-> NoCode, pos |-> pos]
    ELSE IF uuid4(pos) \notin taken THEN [coupon_code |-> uuid4(pos), pos |-> pos + 1]
    ELSE PickCode(taken, pos + 1, attempt + 1)

\* purchases.py 289-338: the loop over range(quantity).  The session factory
\* (core/db.py) decides whether a SELECT first flushes the pending rows: with
\* autoflush the lookup also meets the coupons this purchase has added,
\* without it only the rows in the table
RECURSIVE GenerateCoupons(_, _, _, _, _)
GenerateCoupons(n, taken, pos, acc, autoflush) ==
    IF n = 0 THEN [ok |-> TRUE, coupon_codes |-> acc, pos |-> pos]
    ELSE LET pick == PickCode(taken, pos, 0)
         IN IF pick.coupon_code = NoCode
            THEN [ok |-> FALSE, coupon_codes |-> acc, pos |-> pick.pos]
            ELSE GenerateCoupons(n - 1,
                                 IF autoflush THEN taken \cup {pick.coupon_code} ELSE taken,
                                 pick.pos, Append(acc, pick.coupon_code), autoflush)

\* the coupons of request r (none unless it is a purchase)
Generated(r, autoflush) ==
    IF r.kind = "purchase"
    THEN GenerateCoupons(r.amount, CouponCodes, uuid_pos, <<>>, autoflush)
    ELSE [ok |-> TRUE, coupon_codes |-> <<>>, pos |-> uuid_pos]

\* coupons.coupon_code is the primary key: the INSERTs of the flush fail when
\* two pending coupons carry one code or a coupon of the table has it
PrimaryKeyViolation(coupon_codes) ==
    \/ \E i \in 1..Len(coupon_codes) : coupon_codes[i] \in CouponCodes
    \/ \E i, j \in 1..Len(coupon_codes) : i # j /\ coupon_codes[i] = coupon_codes[j]

NewCoupons(r, coupon_codes) ==
    {[coupon_code |-> coupon_codes[i], owner_user_id |-> r.from_user_id,
      status |-> "unused"] : i \in 1..Len(coupon_codes)}

NewOrderItems(r, coupon_codes) ==
    {[tx_id |-> r.tx_id, coupon_code |-> coupon_codes[i]] : i \in 1..Len(coupon_codes)}

NewCouponEvents(r, coupon_codes) ==
    [i \in 1..Len(coupon_codes) |->
        [coupon_code |-> coupon_codes[i], event_type |-> "generated",
         actor_user_id |-> r.from_user_id]]

\* db.commit(): the writes of the request become the committed state
Commit(t, gen) ==
    LET r == txn[t]
        e == Effect(r)
        deleted == IF r.kind = "admin_delete" THEN {r.from_user_id} ELSE {}
    IN /\ wallet_accounts' = (wallet_accounts \cup r.created) \ deleted
       /\ balance_cents' = [u \in UserIds |->
              IF u \in deleted THEN 0
              ELSE IF u \in DOMAIN e.writes THEN e.writes[u]
              ELSE balance_cents[u]]
       /\ ledger' = CascadeDelete(ledger \cup e.rows, deleted)
       /\ exists' = exists \ deleted
       /\ is_active' = [u \in UserIds |->
              IF r.kind = "seller_delete" /\ u \in r.subtree_ids THEN FALSE ELSE is_active[u]]
       /\ orders' = orders \cup NewOrders(r)
       /\ coupons' = coupons \cup NewCoupons(r, gen.coupon_codes)
       /\ order_items' = order_items \cup NewOrderItems(r, gen.coupon_codes)
       /\ coupon_events' = coupon_events \o NewCouponEvents(r, gen.coupon_codes)
       /\ uuid_pos' = gen.pos % Len(uuid_tape)
       /\ txn' = [txn EXCEPT ![t] = Idle]
       /\ seller_plan_prices' = [u \in UserIds |->
              IF u \in deleted THEN NoPrice ELSE seller_plan_prices[u]]
       /\ result' = [kind |-> r.kind, status |-> "ok"]
       /\ UNCHANGED <<base_price, edges, treeVars, uuid_tape, nextTx>>

\* purchases.py 302-303 and 361-363: the coupons cannot be written; the
\* rollback undoes the writes of the request, the candidates drawn are gone
GenerationFails(t, gen, err) ==
    /\ txn' = [txn EXCEPT ![t] = Idle]
    /\ result' = [kind |-> txn[t].kind, status |-> err]
    /\ uuid_pos' = gen.pos % Len(uuid_tape)
    /\ UNCHANGED <<walletVars, pricingVars, treeVars, order_items, coupon_events, uuid_tape,
                   nextTx>>

\* the end of the request: the last checks, then commit
Finish(t) ==
    /\ txn[t].pc = "applied"
    /\ IF ConservationMismatch(txn[t]) THEN Rollback(t, "PurchaseError")
       ELSE IF DeleteRefused(txn[t]) THEN Rollback(t, "DBError")
       ELSE \E autoflush \in BOOLEAN :
              LET gen == Generated(txn[t], autoflush)
              IN IF ~gen.ok THEN GenerationFails(t, gen, "PurchaseError")
                 ELSE IF PrimaryKeyViolation(gen.coupon_codes)
                 THEN GenerationFails(t, gen, "DBError")
                 ELSE Commit(t, gen)

\* a late failure whose handler leaves the balance UPDATEs in place
FailLateKeepsBalances(t) ==
    /\ txn[t].pc = "applied"
    /\ balance_cents' = [u \in UserIds |->
           IF u \in DOMAIN Effect(txn[t]).writes THEN Effect(txn[t]).writes[u]
           ELSE balance_cents[u]]
    /\ txn' = [txn EXCEPT ![t] = Idle]
    /\ result' = [kind |-> txn[t].kind, status |-> "DBError"]
    /\ UNCHANGED <<exists, is_active, wallet_accounts, ledger, orders, coupons,
                   pricingVars, treeVars, couponVars, nextTx>>

\* a statement after the writes fails (coupon codes exhausted, a database
\* error at flush or commit): the exception handler rolls the request back
FailLate(t) ==
    /\ txn[t].pc = "applied"
    /\ \E err \in {"PurchaseError", "DBError"} :
          /\ err = "PurchaseError" => txn[t].kind = "purchase"
          /\ Rollback(t, err)

(***************************************************************************)
(* pricing.py and the routers that write seller_plan_prices and the edge   *)
(* prices.  Every request is one transaction that commits at its end; the  *)
(* requests name plan 1 and the currency USD.                              *)
(***************************************************************************)
MaxPrice == 1       \* largest price a pricing request names
Prices == 0..MaxPrice

\* payload.plans of the update requests: no plan, or plan 1 with a price
PlanPayloads == {<<>>} \cup {<<p>> : p \in Prices}

require_admin(u) == role(u) = "admin"

require_seller(u) == role(u) = "seller"

\* the request commits its pricing rows
WritePricing(kind, new_base, new_edges, new_plan_prices) ==
    /\ base_price' = new_base
    /\ edges' = new_edges
    /\ seller_plan_prices' = new_plan_prices
    /\ result' = [kind |-> kind, status |-> "ok"]
    /\ UNCHANGED <<walletVars, treeVars, couponVars, nextTx, txn>>

_ensure_child_is_direct(parent_user_id, child_user_id) ==
    child_user_id \in exists /\ parent_id(child_user_id) = parent_user_id

\* seller_plans.py: an edge into the seller exists for the plan
seller_has_plan_enabled(seller_user_id) ==
    \E k \in EdgeKeys : k[2] = seller_user_id /\ edges[k] # NoEdge

CostError(status) == [status |-> status, parent_cost_cents |-> NoPrice]

\* the cost of every parent taken from the platform base price
CostFromBasePrice(parent_user_id) ==
    IF parent_user_id \notin exists THEN CostError("HTTP404")
    ELSE IF base_price = NoPrice THEN CostError("HTTP400")
    ELSE [status |-> "ok", parent_cost_cents |-> base_price]

determine_parent_cost(parent_user_id) ==
    IF parent_user_id \notin exists THEN CostError("HTTP404")
    ELSE IF role(parent_user_id) = "admin"
         THEN IF base_price = NoPrice THEN CostError("HTTP400")
              ELSE [status |-> "ok", parent_cost_cents |-> base_price]
    ELSE IF parent_id(parent_user_id) = NoUser THEN CostError("HTTP400")
    ELSE IF EdgePrice(parent_id(parent_user_id), parent_user_id) = NoPrice
         THEN CostError("HTTP400")
    ELSE [status |-> "ok",
          parent_cost_cents |-> EdgePrice(parent_id(parent_user_id), parent_user_id)]

\* PUT /admin/pricing/base
admin_upsert_base_price(admin_user, base_price_cents) ==
    /\ get_current_user(admin_user)
    /\ IF ~require_admin(admin_user) THEN Reject("base_price", "HTTP403")
       ELSE WritePricing("base_price", base_price_cents, edges, seller_plan_prices)

\* PUT /seller/pricing/edge
upsert_edge_price_seller(current_user, child_user_id, price_cents) ==
    /\ get_current_user(current_user)
    /\ LET parent_cost == determine_parent_cost(current_user)
           k == <<current_user, child_user_id>>
       IN IF ~_ensure_child_is_direct(current_user, child_user_id)
          THEN Reject("edge_price", "HTTP400")
          ELSE IF ~seller_has_plan_enabled(current_user)
          THEN Reject("edge_price", "HTTP400")
          ELSE IF parent_cost.status # "ok"
          THEN Reject("edge_price", parent_cost.status)
          ELSE IF price_cents < parent_cost.parent_cost_cents
          THEN Reject("edge_price", "HTTP400 price too low")
          ELSE IF edges[k] # NoEdge /\ edges[k].is_admin_override
          THEN Reject("edge_price", "HTTP403 admin overridden")
          ELSE WritePricing("edge_price", base_price,
                            [edges EXCEPT ![k] = [price_cents |-> price_cents,
                                                  is_admin_override |-> FALSE]],
                            seller_plan_prices)

\* PUT /admin/pricing/edge-override
upsert_edge_price_admin_override(admin_user, parent_user_id, child_user_id, price_cents) ==
    /\ get_current_user(admin_user)
    /\ IF ~require_admin(admin_user) THEN Reject("edge_override", "HTTP403")
       ELSE IF ~_ensure_child_is_direct(parent_user_id, child_user_id)
       THEN Reject("edge_override", "HTTP400")
       ELSE WritePricing("edge_override", base_price,
                         [edges EXCEPT ![<<parent_user_id, child_user_id>>] =
                             [price_cents |-> price_cents, is_admin_override |-> TRUE]],
                         seller_plan_prices)

\* the rows of the edge parent -> child are deleted, whatever their override
\* flag, and one row per plan of the payload is inserted with the flag's default
_sync_edge_prices_full_replace(parent_user_id, child_user_id, plans) ==
    [edges EXCEPT ![<<parent_user_id, child_user_id>>] =
        IF plans = <<>> THEN NoEdge
        ELSE [price_cents |-> plans[1], is_admin_override |-> FALSE]]

\* the seller_plan_prices rows of the user after a full replace
ReplacePlanPrices(user_id, plans) ==
    [seller_plan_prices EXCEPT ![user_id] = IF plans = <<>> THEN NoPrice ELSE plans[1]]

\* PATCH /admin/sellers/{seller_id} with payload.plans
admin_update_seller(admin_user, seller_id, plans) ==
    /\ get_current_user(admin_user)
    /\ LET parent == IF parent_id(seller_id) # NoUser THEN parent_id(seller_id)
                     ELSE admin_user
       IN IF ~require_admin(admin_user) THEN Reject("admin_update_seller", "HTTP403")
          ELSE IF seller_id \notin exists THEN Reject("admin_update_seller", "HTTP404")
          ELSE IF /\ plans # <<>>
                  /\ seller_plan_prices[parent] # NoPrice
                  /\ plans[1] < seller_plan_prices[parent]
          THEN Reject("admin_update_seller", "HTTP400")
          ELSE WritePricing("admin_update_seller", base_price,
                            _sync_edge_prices_full_replace(parent, seller_id, plans),
                            ReplacePlanPrices(seller_id, plans))

_get_direct_child_or_404(seller_id, child_id) ==
    child_id \in exists /\ parent_id(child_id) = seller_id

\* PATCH /seller/users/{child_id} with payload.plans
seller_update_direct_child(current_seller, child_id, plans) ==
    /\ get_current_user(current_seller)
    /\ IF ~require_seller(current_seller) THEN Reject("seller_update_child", "HTTP403")
       ELSE IF ~_get_direct_child_or_404(current_seller, child_id)
       THEN Reject("seller_update_child", "HTTP404")
       ELSE IF plans # <<>> /\ seller_plan_prices[current_seller] = NoPrice
       THEN Reject("seller_update_child", "HTTP400")
       ELSE IF plans # <<>> /\ plans[1] < seller_plan_prices[current_seller]
       THEN Reject("seller_update_child", "HTTP400")
       ELSE WritePricing("seller_update_child", base_price,
                         _sync_edge_prices_full_replace(current_seller, child_id, plans),
                         ReplacePlanPrices(child_id, plans))

(***************************************************************************)
(* The wallet engine under concurrent requests.                            *)
(***************************************************************************)
Amounts == 0..MaxAmt
Quantities == 0..MaxQty

\* the price table of plan 1 that the pricing operations left behind:
\* <<base, 1->2, 2->3, 3->4>>.  Every level has a margin > 0; user 4 has been
\* given no price yet.
InitPrices == {<<1, 2, 3, NoPrice>>}

\* the balance every account was topped up to before the behaviour starts
InitFund == 6

EdgesOf(pr) ==
    [k \in EdgeKeys |->
        IF k = <<1, 2>> THEN [price_cents |-> pr[2], is_admin_override |-> FALSE]
        ELSE IF k = <<2, 3>> THEN [price_cents |-> pr[3], is_admin_override |-> FALSE]
        ELSE IF k = <<3, 4>> THEN [price_cents |-> pr[4], is_admin_override |-> FALSE]
        ELSE NoEdge]

\* the chain root(1) -> 2 -> 3 -> 4 as the create requests leave it
RECURSIVE ChainPath(_)
ChainPath(u) == IF u = 1 THEN _ltree_label(1) ELSE build_user_path(ChainPath(u - 1), u)

InitChain ==
    /\ user_parent = [u \in UserIds |-> u - 1]
    /\ user_path = [u \in UserIds |-> ChainPath(u)]
    /\ user_depth = [u \in UserIds |-> u - 1]
    /\ users_id_seq = Cardinality(UserIds)

\* a generator that yields pairwise different codes
DistinctTape == <<1, 2, 3, 4, 5, 6, 7, 8, 9>>

\* no coupon has been generated
InitCoupons ==
    /\ order_items = {}
    /\ coupon_events = <<>>
    /\ uuid_pos = 0

\* the chain of users with their funded accounts
InitAccounts ==
    /\ InitChain
    /\ InitCoupons
    /\ exists = UserIds
    /\ is_active = [u \in UserIds |-> TRUE]
    /\ wallet_accounts = UserIds \ {1}
    /\ balance_cents = [u \in UserIds |-> IF u \in wallet_accounts THEN InitFund ELSE 0]
    /\ ledger = {Row(-u, u, "topup", InitFund, 1) : u \in wallet_accounts}
    /\ orders = {}
    /\ coupons = {}
    /\ nextTx = 0
    /\ txn = [t \in Slots |-> Idle]
    /\ result = [kind |-> "none", status |-> "none"]

InitWallet ==
    /\ InitAccounts
    /\ uuid_tape = DistinctTape

Init ==
    /\ InitWallet
    /\ \E pr \in InitPrices : base_price = pr[1] /\ edges = EdgesOf(pr)
    /\ seller_plan_prices = [u \in UserIds |-> NoPrice]

Next ==
    \/ \E t \in Slots, a, u \in UserIds, n \in Amounts : admin_topup(t, a, u, n)
    \/ \E t \in Slots, a, u \in UserIds, n \in Amounts : transfer_to_child(t, a, u, n)
    \/ \E t \in Slots, a, u \in UserIds, n \in Amounts : adjust_child_balance_down(t, a, u, n)
    \/ \E t \in Slots, a, u \in UserIds, n \in Amounts : admin_set_balance_via_parent(t, a, u, n)
    \/ \E t \in Slots, a, u \in UserIds, n \in Amounts : seller_set_balance_via_parent(t, a, u, n)
    \/ \E t \in Slots, a, u \in UserIds : seller_delete_user_return_balance_to_parent(t, a, u)
    \/ \E t \in Slots, a, u \in UserIds : admin_delete_user_return_balance_to_parent(t, a, u)
    \/ \E t \in Slots, a \in UserIds, p \in PlanIds, q \in Quantities :
          purchase_plan_and_distribute(t, a, p, q)
    \/ \E t \in Slots : _ensure_wallet_account(t)
    \/ \E t \in Slots : InsertReturns(t)
    \/ \E t \in Slots : LockRow(t)
    \/ \E t \in Slots : DeadlockAbort(t)
    \/ \E t \in Slots : Apply(t)
    \/ \E t \in Slots : Finish(t)
    \/ \E t \in Slots : FailLate(t)

Spec == Init /\ [][Next]_vars

(***************************************************************************)
(* The pricing requests on a tree of three users whose pricing tables      *)
(* start empty.                                                            *)
(***************************************************************************)
PricingUsers == {1, 2, 3}

InitPricing ==
    /\ InitChain
    /\ InitCoupons
    /\ uuid_tape = DistinctTape
    /\ exists = PricingUsers
    /\ is_active = [u \in UserIds |-> u \in PricingUsers]
    /\ wallet_accounts = PricingUsers
    /\ balance_cents = [u \in UserIds |-> 0]
    /\ ledger = {}
    /\ orders = {}
    /\ coupons = {}
    /\ nextTx = 0
    /\ txn = [t \in Slots |-> Idle]
    /\ result = [kind |-> "none", status |-> "none"]
    /\ base_price = NoPrice
    /\ edges = [k \in EdgeKeys |-> NoEdge]
    /\ seller_plan_prices = [u \in UserIds |-> NoPrice]

NextPricing ==
    \/ \E a \in PricingUsers, p \in Prices : admin_upsert_base_price(a, p)
    \/ \E a, c \in PricingUsers, p \in Prices : upsert_edge_price_seller(a, c, p)
    \/ \E a, u, c \in PricingUsers, p \in Prices : upsert_edge_price_admin_override(a, u, c, p)
    \/ \E a, u \in PricingUsers, pl \in PlanPayloads : admin_update_seller(a, u, pl)
    \/ \E a, c \in PricingUsers, pl \in PlanPayloads : seller_update_direct_child(a, c, pl)

SpecPricing == InitPricing /\ [][NextPricing]_vars

(***************************************************************************)
(* The hierarchy built by the create requests, with the delete requests    *)
(* of the wallet engine running next to them.  The root is the user that   *)
(* create_user_under_parent makes without a parent.                        *)
(***************************************************************************)
\* tree.create_user_under_parent followed by the INSERT of the wallet account:
\* the id comes from the sequence, path and depth from the parent's row
create_user_under_parent(new_id, parent, active) ==
    /\ users_id_seq' = new_id
    /\ exists' = exists \cup {new_id}
    /\ is_active' = [is_active EXCEPT ![new_id] = active]
    /\ user_parent' = [user_parent EXCEPT ![new_id] = parent]
    /\ user_path' = [user_path EXCEPT ![new_id] =
                        build_user_path(IF parent = NoUser THEN <<>> ELSE user_path[parent],
                                        new_id)]
    /\ user_depth' = [user_depth EXCEPT ![new_id] =
                         (IF parent = NoUser THEN -1 ELSE user_depth[parent]) + 1]
    /\ wallet_accounts' = wallet_accounts \cup {new_id}
    /\ balance_cents' = [balance_cents EXCEPT ![new_id] = 0]

\* the request fails after nextval: the rollback does not give the id back
CreateFails(kind, err) ==
    /\ users_id_seq' = users_id_seq + 1
    /\ result' = [kind |-> kind, status |-> err]
    /\ UNCHANGED <<walletVars, pricingVars, couponVars, user_parent, user_path, user_depth,
                   nextTx, txn>>

\* POST /admin/sellers: the parent of the new user is the admin that calls.
\* `duplicate` says that the username is taken (unique violation at flush).
admin_create_seller(admin_user, active, plans, duplicate) ==
    /\ get_current_user(admin_user)
    /\ users_id_seq < Cardinality(UserIds)
    /\ IF ~require_admin(admin_user) THEN Reject("admin_create_seller", "HTTP403")
       ELSE IF duplicate THEN CreateFails("admin_create_seller", "DBError")
       ELSE IF /\ plans # <<>>
               /\ seller_plan_prices[admin_user] # NoPrice
               /\ plans[1] < seller_plan_prices[admin_user]
       THEN CreateFails("admin_create_seller", "HTTP400")
       ELSE /\ create_user_under_parent(users_id_seq + 1, admin_user, active)
            /\ seller_plan_prices' = ReplacePlanPrices(users_id_seq + 1, plans)
            /\ edges' = IF plans = <<>> THEN edges
                        ELSE _sync_edge_prices_full_replace(admin_user, users_id_seq + 1, plans)
            /\ result' = [kind |-> "admin_create_seller", status |-> "ok"]
            /\ UNCHANGED <<ledger, orders, coupons, couponVars, base_price, nextTx, txn>>

\* POST /seller/users: the parent of the new user is the seller that calls
seller_create_direct_child(current_seller, active, plans, duplicate) ==
    /\ get_current_user(current_seller)
    /\ users_id_seq < Cardinality(UserIds)
    /\ IF ~require_seller(current_seller) THEN Reject("seller_create_child", "HTTP403")
       ELSE IF duplicate THEN CreateFails("seller_create_child", "HTTP400")
       ELSE IF plans # <<>> /\ seller_plan_prices[current_seller] = NoPrice
       THEN CreateFails("seller_create_child", "HTTP400")
       ELSE IF plans # <<>> /\ plans[1] < seller_plan_prices[current_seller]
       THEN CreateFails("seller_create_child", "HTTP400")
       ELSE /\ create_user_under_parent(users_id_seq + 1, current_seller, active)
            /\ seller_plan_prices' = ReplacePlanPrices(users_id_seq + 1, plans)
            /\ edges' = IF plans = <<>> THEN edges
                        ELSE _sync_edge_prices_full_replace(current_seller, users_id_seq + 1, plans)
            /\ result' = [kind |-> "seller_create_child", status |-> "ok"]
            /\ UNCHANGED <<ledger, orders, coupons, couponVars, base_price, nextTx, txn>>

InitTree ==
    /\ InitCoupons
    /\ uuid_tape = DistinctTape
    /\ exists = {1}
    /\ is_active = [u \in UserIds |-> u = 1]
    /\ user_parent = [u \in UserIds |-> NoUser]
    /\ user_path = [u \in UserIds |-> IF u = 1 THEN build_user_path(<<>>, 1) ELSE <<>>]
    /\ user_depth = [u \in UserIds |-> 0]
    /\ users_id_seq = 1
    /\ wallet_accounts = {1}
    /\ balance_cents = [u \in UserIds |-> 0]
    /\ ledger = {}
    /\ orders = {}
    /\ coupons = {}
    /\ nextTx = 0
    /\ txn = [t \in Slots |-> Idle]
    /\ result = [kind |-> "none", status |-> "none"]
    /\ base_price = NoPrice
    /\ edges = [k \in EdgeKeys |-> NoEdge]
    /\ seller_plan_prices = [u \in UserIds |-> NoPrice]

\* one delete request at a time runs next to the create requests
NextTree ==
    \/ \E a \in UserIds, act, dup \in BOOLEAN, pl \in PlanPayloads :
          admin_create_seller(a, act, pl, dup)
    \/ \E a \in UserIds, act, dup \in BOOLEAN, pl \in PlanPayloads :
          seller_create_direct_child(a, act, pl, dup)
    \/ \E a, u \in UserIds : seller_delete_user_return_balance_to_parent(1, a, u)
    \/ \E a, u \in UserIds : admin_delete_user_return_balance_to_parent(1, a, u)
    \/ _ensure_wallet_account(1)
    \/ LockRow(1)
    \/ Apply(1)
    \/ Finish(1)

SpecTree == InitTree /\ [][NextTree]_vars

(***************************************************************************)
(* The bucketing of a user of a seller's subtree to the seller's direct    *)
(* child, as the SQL expression and as the router's text function.         *)
(***************************************************************************)
\* the statement fails: ltree subpath past the end, or a cast of a bad text
SqlError == -1

\* SQL substr(text, from)
substr(s, from) == SubSeq(s, from, Len(s))

\* the text is a non-empty run of decimal digits: int(text) succeeds
IsDigits(s) == s # <<>> /\ \A i \in 1..Len(s) : \E n \in 0..9 : s[i] = Digit(n)

\* the same expression with the label sliced one level too high
BucketAtSellerLevel(leaf_id, leaf_path, seller_user_id, seller_path_nlevel) ==
    IF leaf_id = seller_user_id THEN seller_user_id
    ELSE ParseInt(substr(Labels(leaf_path)[seller_path_nlevel], 2))

\* coupons._direct_child_bucket_user_id_expr:
\* CASE WHEN leaf.id = seller THEN seller
\*      ELSE CAST(substr(CAST(subpath(leaf.path, nlevel, 1) AS text), 2) AS int)
_direct_child_bucket_user_id_expr(leaf_id, leaf_path, seller_user_id, seller_path_nlevel) ==
    IF leaf_id = seller_user_id THEN seller_user_id
    ELSE IF seller_path_nlevel >= nlevel(leaf_path) THEN SqlError
    ELSE LET child_id_txt == substr(Labels(leaf_path)[seller_path_nlevel + 1], 2)
         IN IF IsDigits(child_id_txt) THEN ParseInt(child_id_txt) ELSE SqlError

\* text.startswith(prefix)
StartsWith(s, prefix) == Len(s) >= Len(prefix) /\ SubSeq(s, 1, Len(prefix)) = prefix

\* routers/seller_coupon_events._bucket_owner_to_direct_child; NoUser and the
\* empty path stand for None
_bucket_owner_to_direct_child(seller_path, seller_id, owner_id, owner_path) ==
    IF owner_id = NoUser \/ owner_path = <<>> THEN NoUser
    ELSE IF owner_path = seller_path THEN seller_id
    ELSE LET prefix == seller_path \o <<".">> IN
         IF ~StartsWith(owner_path, prefix) THEN seller_id
         ELSE LET rest == substr(owner_path, Len(prefix) + 1)
                  first == Split(rest, ".")[1]
              IN IF StartsWith(first, <<"u">>)
                 THEN (IF IsDigits(substr(first, 2)) THEN ParseInt(substr(first, 2))
                       ELSE seller_id)
                 ELSE seller_id

(***************************************************************************)
(* The seller-scoped queries: the user ids a viewer is shown.              *)
(***************************************************************************)
\* the user whose path is seller_path || subpath(raw_path, seller_depth + 1, 1),
\* NoUser when the LEFT JOIN finds none
BucketJoin(raw_user_id, seller_id) ==
    IF raw_user_id = NoUser \/ raw_user_id \notin exists THEN NoUser
    ELSE IF raw_user_id = seller_id THEN NoUser
    ELSE IF ~(nlevel(user_path[raw_user_id]) > user_depth[seller_id] + 1) THEN NoUser
    ELSE LET want == user_path[seller_id] \o <<".">>
                     \o Labels(user_path[raw_user_id])[user_depth[seller_id] + 2]
             found == {u \in exists : user_path[u] = want}
         IN IF found = {} THEN NoUser ELSE CHOOSE u \in found : TRUE

\* routers/seller_balance_history_rollup.seller_list_balance_history: the
\* (user_id, related_user_id) pairs of the rows shown to the seller
seller_list_balance_history(seller_id) ==
    {[user_id |-> IF r.user_id = seller_id THEN r.user_id ELSE BucketJoin(r.user_id, seller_id),
      related_user_id |->
          IF r.related_user_id = NoUser \/ r.related_user_id \notin exists THEN NoUser
          ELSE IF r.related_user_id = seller_id THEN seller_id
          ELSE IF IsDescendantOrSelf(r.related_user_id, seller_id)
               THEN BucketJoin(r.related_user_id, seller_id)
          ELSE NoUser]
       : r \in {x \in ledger : x.user_id \in exists /\ IsDescendantOrSelf(x.user_id, seller_id)}}

\* coupons.seller_recent_coupon_events_rollup: the actor ids shown, bucketed by
\* the owner of the coupon of each event
seller_recent_coupon_events_rollup(seller_id) ==
    {_direct_child_bucket_user_id_expr(c.owner_user_id, user_path[c.owner_user_id],
                                       seller_id, user_depth[seller_id] + 1)
       : c \in {x \in coupons : x.owner_user_id \in exists
                                 /\ IsDescendantOrSelf(x.owner_user_id, seller_id)}}

\* pricing.list_edges_within_subtree: the edge rows whose parent lies in the
\* subtree of the caller
list_edges_within_subtree(root_user_id) ==
    {k \in EdgeKeys : /\ edges[k] # NoEdge
                      /\ k[1] \in exists
                      /\ IsDescendantOrSelf(k[1], root_user_id)}

(***************************************************************************)
(* Properties of the ledger.                                               *)
(***************************************************************************)
RowsOfTx(x) == {r \in ledger : r.tx_id = x}

RowsOfUser(u) == {r \in ledger : r.user_id = u}

SumRows(R) == SumOver([r \in R |-> r.amount_cents], R)

\* the request of slot t commits in this step
Commits(t) ==
    /\ txn[t].pc = "applied"
    /\ txn'[t] = Idle
    /\ result' = [kind |-> txn[t].kind, status |-> "ok"]

\* C1: in every reachable state the amounts of the ledger rows of one tx_id sum
\* to zero, for every tx_id whose rows are not topup rows.
Conservation ==
    \A x \in {r.tx_id : r \in ledger} :
        (\A r \in RowsOfTx(x) : r.entry_kind # "topup") => SumRows(RowsOfTx(x)) = 0

\* C2: in every reachable state the balance of every user that has a wallet
\* account equals the sum of the amounts of the user's ledger rows.
BalanceMatchesLedger ==
    \A u \in wallet_accounts : balance_cents[u] = SumRows(RowsOfUser(u))

\* a user whose balance moved away from the first topup and who was credited a
\* profit, after another user was deleted
BalanceMatchesLedgerWitness ==
    /\ exists # UserIds
    /\ \E u \in wallet_accounts :
          /\ balance_cents[u] # InitFund
          /\ \E r \in RowsOfUser(u) : r.entry_kind = "profit_credit"

\* the child of ancestor a on the chain from a down to buyer b
ChildOnChain(a, b) == path(b)[Len(path(a)) + 1]

\* the change of the balance of u that the purchase of q units by buyer b is to make
ExpectedPurchaseDelta(b, plan_id, q, u) ==
    IF u = b THEN -(q * _get_edge_price_cents(parent_id(b), b, plan_id))
    ELSE IF ~IsDescendantOrSelf(b, u) THEN 0
    ELSE IF parent_id(u) = NoUser
    THEN q * _get_admin_base_price_cents(plan_id)
         + q * (_get_edge_price_cents(u, ChildOnChain(u, b), plan_id)
                - _get_admin_base_price_cents(plan_id))
    ELSE q * (_get_edge_price_cents(u, ChildOnChain(u, b), plan_id)
              - _get_edge_price_cents(parent_id(u), u, plan_id))

\* C3: a successful purchase of q units by buyer B takes q * price(A1 -> B) from
\* B, gives every non-root ancestor q times its margin, gives the root q times
\* the base price plus q times its margin, and changes no other balance.
PurchaseDeltas ==
    [][\A t \in Slots :
          (Commits(t) /\ txn[t].kind = "purchase") =>
              \A u \in UserIds :
                  balance_cents'[u] - balance_cents[u] =
                      ExpectedPurchaseDelta(txn[t].from_user_id, txn[t].plan_id,
                                            txn[t].amount, u)]_vars

\* buyer 3, with the seller 2 and the root above it, bought two units
PurchaseDeltasWitness ==
    \E o \in orders : o.buyer_user_id = 3 /\ o.quantity = 2

Debit(r) ==
    IF r.kind = "transfer" THEN [user_id |-> r.from_user_id, cents |-> r.amount]
    ELSE IF r.kind = "purchase"
    THEN [user_id |-> r.from_user_id, cents |-> r.amount * r.unit_price_cents]
    ELSE IF r.kind = "set_balance" /\ r.amount > balance_cents[r.to_user_id]
    THEN [user_id |-> r.from_user_id, cents |-> r.amount - balance_cents[r.to_user_id]]
    ELSE [user_id |-> NoUser, cents |-> 0]

Overdraws(r) ==
    /\ Debit(r).user_id # NoUser
    /\ Debit(r).cents > balance_cents[Debit(r).user_id]

\* C5: no balance is ever negative, and an operation whose debit exceeds the
\* balance of the debited account ends with InsufficientBalance and changes
\* nothing.
NoNegativeBalance ==
    /\ [](\A u \in UserIds : balance_cents[u] >= 0)
    /\ [][\A t \in Slots :
             (txn[t].pc = "locked" /\ Overdraws(txn[t]) /\ txn'[t] # txn[t]) =>
                 /\ result' = [kind |-> txn[t].kind, status |-> "InsufficientBalance"]
                 /\ txn'[t] = Idle
                 /\ UNCHANGED walletVars]_vars

\* a purchase was refused for want of funds after the buyer's balance had been
\* set to zero
NoNegativeBalanceWitness ==
    /\ result = [kind |-> "purchase", status |-> "InsufficientBalance"]
    /\ \E u \in wallet_accounts \ {1} : balance_cents[u] = 0

\* C6: no reachable state holds a cycle of requests each waiting for an account
\* lock that another one holds.
NoDeadlock == \A t \in Slots : ~Deadlocked(t)

\* the change of the balance of u that request r is to make, whatever it read
Delta(r, u) ==
    IF r.kind = "topup" THEN (IF u = r.to_user_id THEN r.amount ELSE 0)
    ELSE IF r.kind = "transfer"
    THEN (IF u = r.from_user_id THEN -r.amount
          ELSE IF u = r.to_user_id THEN r.amount ELSE 0)
    ELSE IF r.kind = "purchase"
    THEN (IF u = r.from_user_id THEN -(r.amount * r.unit_price_cents)
          ELSE IF u \in DOMAIN r.credits THEN r.amount * r.credits[u] ELSE 0)
    ELSE 0

\* C7: the balances an operation computes with are read under the account
\* locks: no two requests hold the lock of one account, the value a request
\* read is the committed one as long as it holds the lock, and a commit moves
\* every balance by exactly the delta of its operation, so no update is lost.
NoLostUpdate ==
    /\ [](\A t, s \in Slots : t # s => txn[t].held \cap txn[s].held = {})
    /\ [](\A t \in Slots : \A u \in txn[t].held : txn[t].seen[u] = balance_cents[u])
    /\ [][\A t \in Slots :
             (Commits(t) /\ txn[t].kind \in {"topup", "transfer", "purchase"}) =>
                 \A u \in UserIds :
                     balance_cents'[u] = balance_cents[u] + Delta(txn[t], u)]_vars

\* a request is about to commit a change of an account whose lock a second
\* request, entered before that commit, is waiting for
NoLostUpdateWitness ==
    \E t, s \in Slots :
        /\ t # s
        /\ txn[t].pc = "applied" /\ txn[t].kind = "purchase"
        /\ txn[s].pc = "lock" /\ txn[s].kind \in {"purchase", "transfer"}
        /\ Head(txn[s].lockseq) \in DOMAIN Effect(txn[t]).writes
        /\ Head(txn[s].lockseq) \in txn[t].held

(***************************************************************************)
(* Properties of the pricing tables.                                       *)
(***************************************************************************)
\* what a user pays for a unit: the base price for the root, else the price on
\* the edge from the user's parent
AcquisitionCost(u) ==
    IF parent_id(u) = NoUser THEN base_price ELSE EdgePrice(parent_id(u), u)

\* C8: upsert_edge_price_seller with a price below the caller's own cost fails
\* and leaves the edge table as it was.
PriceBelowCostRefused ==
    [][\A a, c \in PricingUsers, p \in Prices :
          (/\ AcquisitionCost(a) # NoPrice
           /\ p < AcquisitionCost(a)
           /\ result'.kind = "edge_price"
           /\ upsert_edge_price_seller(a, c, p)) =>
              /\ result'.status # "ok"
              /\ edges' = edges]_vars

\* a seller's price for an edge that has a row was refused as too low
PriceBelowCostWitness ==
    /\ result = [kind |-> "edge_price", status |-> "HTTP400 price too low"]
    /\ edges[<<2, 3>>] # NoEdge
    /\ edges[<<2, 3>>].price_cents > 0

\* C9: in every reachable state every edge that is no override has a price at
\* or above its parent's current cost.
MarginFloor ==
    \A k \in EdgeKeys :
        (/\ edges[k] # NoEdge
         /\ ~edges[k].is_admin_override
         /\ AcquisitionCost(k[1]) # NoPrice) =>
            edges[k].price_cents >= AcquisitionCost(k[1])

\* C10: no request of a non-root user changes, deletes or clears the flag of an
\* edge the root has overridden.
OverrideKept ==
    [][\A a \in PricingUsers \ {1}, c \in PricingUsers :
          (/\ result'.kind \in {"edge_price", "seller_update_child"}
           /\ \/ \E p \in Prices : upsert_edge_price_seller(a, c, p)
              \/ \E pl \in PlanPayloads : seller_update_direct_child(a, c, pl)) =>
              \A k \in EdgeKeys :
                  (edges[k] # NoEdge /\ edges[k].is_admin_override) =>
                      edges'[k] = edges[k]]_vars

(***************************************************************************)
(* Properties of the balance operations of a parent on its child.          *)
(***************************************************************************)
\* the two rows a move of `cents` from `payer` to `payee` leaves under tx_id x
LedgerPair(x, payer, payee, cents) ==
    {Row(x, payer, "transfer_out", -cents, payee),
     Row(x, payee, "transfer_in", cents, payer)}

\* C11: when a set-balance of target T with parent P and desired balance d
\* commits, T's balance becomes d, P's balance changes by T's previous balance
\* minus d, no other balance changes, and the ledger grows by exactly two rows
\* of one new tx_id: a transfer_out of -|delta| on the paying side and a
\* transfer_in of +|delta| on the receiving side.
SetBalanceMovesDelta ==
    [][\A t \in Slots :
          (Commits(t) /\ txn[t].kind = "set_balance") =>
              LET T == txn[t].to_user_id
                  P == txn[t].from_user_id
                  d == txn[t].amount
                  prev == balance_cents[T]
              IN /\ balance_cents'[T] = d
                 /\ balance_cents'[P] = balance_cents[P] + (prev - d)
                 /\ \A u \in UserIds \ {T, P} : balance_cents'[u] = balance_cents[u]
                 /\ ledger \subseteq ledger'
                 /\ txn[t].tx_id \notin {r.tx_id : r \in ledger}
                 /\ prev # d
                 /\ ledger' \ ledger =
                        IF d > prev THEN LedgerPair(txn[t].tx_id, P, T, d - prev)
                        ELSE LedgerPair(txn[t].tx_id, T, P, prev - d)]_vars

\* a set-balance that lowered a balance has committed, and a second one that
\* raised a balance out of the parent's account has committed after it
SetBalanceMovesDeltaWitness ==
    /\ result = [kind |-> "set_balance", status |-> "ok"]
    /\ \E T \in UserIds \ {1} :
          /\ Row(1, T, "transfer_out", -InitFund, parent_id(T)) \in ledger
          /\ Row(2, T, "transfer_in", 1, parent_id(T)) \in ledger
          /\ balance_cents[T] = 1

\* C12: when a seller's delete of its direct child T commits for owner O, every
\* user in T's subtree is inactive with balance 0, O's balance has grown by the
\* sum of the members' previous positive balances, and every member that had a
\* positive balance has exactly one new transfer_out row, matched by one
\* transfer_in row on O of the opposite amount.
SubtreeDeactivated ==
    [][\A t \in Slots :
          (Commits(t) /\ txn[t].kind = "seller_delete") =>
              LET T == txn[t].from_user_id
                  O == txn[t].to_user_id
                  x == txn[t].tx_id
                  subtree == {u \in exists : IsDescendantOrSelf(u, T)}
                  paid == {u \in subtree : balance_cents[u] > 0}
                  added == ledger' \ ledger
              IN /\ \A u \in subtree : ~is_active'[u] /\ balance_cents'[u] = 0
                 /\ balance_cents'[O] = balance_cents[O] + SumOver(balance_cents, paid)
                 /\ \A u \in paid :
                       /\ {r \in added : r.user_id = u}
                             = {Row(x, u, "transfer_out", -balance_cents[u], O)}
                       /\ {r \in added : r.user_id = O /\ r.related_user_id = u}
                             = {Row(x, O, "transfer_in", balance_cents[u], u)}]_vars

\* C13: no operation removes a user that has ledger rows, and no operation
\* removes or changes a ledger row: the set of ledger rows only grows, and
\* every user a ledger row names still exists.
LedgerAppendOnly ==
    /\ [][/\ ledger \subseteq ledger'
          /\ \A u \in exists \ exists' : RowsOfUser(u) = {}]_vars
    /\ [](\A r \in ledger : r.user_id \in exists)

(***************************************************************************)
(* Properties of the hierarchy and of the seller-scoped queries.           *)
(***************************************************************************)
\* the users on the chain of parents from the root down to u
Ancestry(u) == {path(u)[i] : i \in 1..Len(path(u))}

\* C14: for a seller S and a user L of S's subtree the bucket computed from L's
\* path is S when L = S and otherwise the one direct child of S that is L or
\* an ancestor of L; the SQL expression and the router's function agree.
BucketResolves ==
    \A S, L \in exists :
        IsDescendantOrSelf(L, S) =>
            LET sql == _direct_child_bucket_user_id_expr(L, user_path[L], S, user_depth[S] + 1)
                py == _bucket_owner_to_direct_child(user_path[S], S, L, user_path[L])
            IN /\ sql = py
               /\ IF L = S THEN sql = S
                  ELSE {c \in exists : parent_id(c) = S /\ c \in Ancestry(L)} = {sql}

\* a seller below the root has a grandchild, which the bucket maps to the
\* seller's direct child
BucketResolvesWitness ==
    \E S, L \in exists :
        /\ S # 1 /\ parent_id(L) # NoUser /\ parent_id(parent_id(L)) = S
        /\ _direct_child_bucket_user_id_expr(L, user_path[L], S, user_depth[S] + 1)
               = parent_id(L)

\* every user id the seller-scoped queries show to viewer S
ShownIdentities(S) ==
    UNION {{row.user_id, row.related_user_id} : row \in seller_list_balance_history(S)}
    \cup seller_recent_coupon_events_rollup(S)
    \cup UNION {{k[1], k[2]} : k \in list_edges_within_subtree(S)}

\* C15: no seller-scoped query shows a seller below the root the id of a
\* descendant two or more levels below it: every user id in a result is the
\* seller, one of its direct children, or null.
OneHopVisibility ==
    \A S \in exists :
        (S # 1 /\ role(S) = "seller") =>
            ShownIdentities(S) \subseteq
                {S, NoUser} \cup {c \in exists : parent_id(c) = S}

(***************************************************************************)
(* The coupon lifecycle: services/coupons.py behind routers/admin_coupons, *)
(* and routers/bot_coupons.                                                *)
(***************************************************************************)

\* coupon events one behaviour may append through the lifecycle requests
MaxEvents == 4

\* db rows of coupons with the given code (the primary key: none or one)
CouponByCode(coupon_code) == {c \in coupons : c.coupon_code = coupon_code}

\* the codes a request may name: the generator's, and one no coupon has
RequestCodes == {uuid_tape[i] : i \in 1..Len(uuid_tape)} \cup {NoCode}

\* coupons._log_event
_log_event(coupon_code, actor_user_id, event_type) ==
    Append(coupon_events, [coupon_code |-> coupon_code, event_type |-> event_type,
                           actor_user_id |-> actor_user_id])

\* a lifecycle request commits the coupon's new status and its event
WriteCoupon(kind, c, status, event_type, actor_user_id) ==
    /\ coupons' = (coupons \ {c}) \cup {[c EXCEPT !.status = status]}
    /\ coupon_events' = _log_event(c.coupon_code, actor_user_id, event_type)
    /\ result' = [kind |-> kind, status |-> "ok"]
    /\ UNCHANGED <<exists, is_active, wallet_accounts, balance_cents, ledger, orders,
                   pricingVars, treeVars, order_items, uuid_tape, uuid_pos, nextTx, txn>>

\* the codes secrets.token_hex gives to count coupons, none of them looked up
TokenCodes(count) == [i \in 1..count |-> uuid4(uuid_pos + i - 1)]

\* POST /admin/coupons: count coupons owned by the admin, one event each; a
\* code that a coupon already has fails the INSERT and the request
admin_generate_coupons(admin_user, plan_id, count) ==
    /\ get_current_user(admin_user)
    /\ Len(coupon_events) < MaxEvents
    /\ IF ~require_admin(admin_user) THEN Reject("admin_generate_coupons", "HTTP403")
       ELSE IF plan_id \notin DOMAIN plan_is_active
       THEN Reject("admin_generate_coupons", "HTTP404")
       ELSE IF ~plan_is_active[plan_id] THEN Reject("admin_generate_coupons", "HTTP400")
       ELSE LET codes == TokenCodes(count)
                clash == \/ \E i \in 1..count : codes[i] \in CouponCodes
                         \/ \E i, j \in 1..count : i # j /\ codes[i] = codes[j]
            IN /\ uuid_pos' = (uuid_pos + count) % Len(uuid_tape)
               /\ IF clash
                  THEN /\ result' = [kind |-> "admin_generate_coupons", status |-> "DBError"]
                       /\ UNCHANGED <<coupons, coupon_events>>
                  ELSE /\ coupons' = coupons \cup
                            {[coupon_code |-> codes[i], owner_user_id |-> admin_user,
                              status |-> "unused"] : i \in 1..count}
                       /\ coupon_events' = coupon_events \o
                            [i \in 1..count |->
                                [coupon_code |-> codes[i], event_type |-> "generated",
                                 actor_user_id |-> admin_user]]
                       /\ result' = [kind |-> "admin_generate_coupons", status |-> "ok"]
               /\ UNCHANGED <<exists, is_active, wallet_accounts, balance_cents, ledger,
                              orders, pricingVars, treeVars, order_items, uuid_tape,
                              nextTx, txn>>

\* POST /admin/coupons/{code}/reserve
admin_reserve_coupon(admin_user, coupon_code, udid_given) ==
    /\ get_current_user(admin_user)
    /\ Len(coupon_events) < MaxEvents
    /\ IF ~require_admin(admin_user) THEN Reject("admin_reserve_coupon", "HTTP403")
       ELSE IF CouponByCode(coupon_code) = {} THEN Reject("admin_reserve_coupon", "HTTP404")
       ELSE LET c == CHOOSE x \in CouponByCode(coupon_code) : TRUE
            IN IF c.status # "unused" THEN Reject("admin_reserve_coupon", "HTTP400")
               ELSE IF ~udid_given THEN Reject("admin_reserve_coupon", "HTTP400")
               ELSE WriteCoupon("admin_reserve_coupon", c, "reserved", "reserved", admin_user)

\* POST /admin/coupons/{code}/unreserve
admin_unreserve_coupon(admin_user, coupon_code) ==
    /\ get_current_user(admin_user)
    /\ Len(coupon_events) < MaxEvents
    /\ IF ~require_admin(admin_user) THEN Reject("admin_unreserve_coupon", "HTTP403")
       ELSE IF CouponByCode(coupon_code) = {} THEN Reject("admin_unreserve_coupon", "HTTP404")
       ELSE LET c == CHOOSE x \in CouponByCode(coupon_code) : TRUE
            IN IF c.status # "reserved" THEN Reject("admin_unreserve_coupon", "HTTP400")
               ELSE WriteCoupon("admin_unreserve_coupon", c, "unused", "unreserved", admin_user)

\* POST /admin/coupons/{code}/void
admin_void_coupon(admin_user, coupon_code) ==
    /\ get_current_user(admin_user)
    /\ Len(coupon_events) < MaxEvents
    /\ IF ~require_admin(admin_user) THEN Reject("admin_void_coupon", "HTTP403")
       ELSE IF CouponByCode(coupon_code) = {} THEN Reject("admin_void_coupon", "HTTP404")
       ELSE LET c == CHOOSE x \in CouponByCode(coupon_code) : TRUE
            IN IF c.status = "used" THEN Reject("admin_void_coupon", "HTTP400")
               ELSE WriteCoupon("admin_void_coupon", c, "void", "voided", admin_user)

\* POST /admin/coupons/{code}/fail: the coupon stays reserved
admin_mark_coupon_failed(admin_user, coupon_code, reason_given) ==
    /\ get_current_user(admin_user)
    /\ Len(coupon_events) < MaxEvents
    /\ IF ~require_admin(admin_user) THEN Reject("admin_mark_coupon_failed", "HTTP403")
       ELSE IF CouponByCode(coupon_code) = {}
       THEN Reject("admin_mark_coupon_failed", "HTTP404")
       ELSE LET c == CHOOSE x \in CouponByCode(coupon_code) : TRUE
            IN IF c.status # "reserved" THEN Reject("admin_mark_coupon_failed", "HTTP400")
               ELSE IF ~reason_given THEN Reject("admin_mark_coupon_failed", "HTTP400")
               ELSE WriteCoupon("admin_mark_coupon_failed", c, c.status, "failed", admin_user)

\* POST /bot/coupons/{code}/issue: the lookup reads Coupon.code, an attribute
\* the model does not have, so the request ends before its SELECT
issue_coupon(coupon_code) == Reject("issue_coupon", "AttributeError")

\* POST /sellers/coupons: the checks of the owner, then the purchase.  The call
\* passes owner_user_id, a keyword purchase_plan_and_distribute does not
\* take (purchases.py 77-83): it raises before the purchase has begun, and
\* neither except clause catches it
seller_generate_coupons(seller_user_id, owner_user_id, plan_id, count) ==
    /\ get_current_user(seller_user_id)
    /\ IF ~require_seller(seller_user_id) THEN Reject("seller_generate_coupons", "HTTP403")
       ELSE LET target_owner_id ==
                    IF owner_user_id # NoUser THEN owner_user_id ELSE seller_user_id
            IN IF target_owner_id # seller_user_id /\ target_owner_id \notin exists
               THEN Reject("seller_generate_coupons", "HTTP404")
               ELSE IF target_owner_id # seller_user_id
                       /\ parent_id(target_owner_id) # seller_user_id
               THEN Reject("seller_generate_coupons", "HTTP403")
               ELSE Reject("seller_generate_coupons", "TypeError")

\* generators that repeat themselves: a code comes back after one other code,
\* and a code comes back for ever
Tapes == {DistinctTape, <<1, 1, 2>>, <<1>>}

InitPurchases ==
    /\ InitAccounts
    /\ uuid_tape \in Tapes
    /\ \E pr \in InitPrices : base_price = pr[1] /\ edges = EdgesOf(pr)
    /\ seller_plan_prices = [u \in UserIds |-> NoPrice]

NextPurchases ==
    \/ \E a \in UserIds, p \in PlanIds, q \in Quantities :
            purchase_plan_and_distribute(1, a, p, q)
    \/ _ensure_wallet_account(1)
    \/ LockRow(1)
    \/ Apply(1)
    \/ Finish(1)
    \/ \E a \in UserIds, o \in UserIds \cup {NoUser}, p \in PlanIds, q \in Quantities :
            seller_generate_coupons(a, o, p, q)

SpecPurchases == InitPurchases /\ [][NextPurchases]_vars

NextCoupons ==
    \/ \E a \in UserIds, p \in PlanIds \cup {0}, n \in 1..MaxQty :
            admin_generate_coupons(a, p, n)
    \/ \E a \in UserIds, c \in RequestCodes, g \in BOOLEAN : admin_reserve_coupon(a, c, g)
    \/ \E a \in UserIds, c \in RequestCodes : admin_unreserve_coupon(a, c)
    \/ \E a \in UserIds, c \in RequestCodes : admin_void_coupon(a, c)
    \/ \E a \in UserIds, c \in RequestCodes, g \in BOOLEAN :
            admin_mark_coupon_failed(a, c, g)
    \/ \E c \in RequestCodes : issue_coupon(c)

SpecCoupons == Init /\ [][NextCoupons]_vars

\* the status changes the lifecycle allows
AllowedTransitions ==
    {<<"unused", "reserved">>, <<"reserved", "unused">>, <<"reserved", "used">>,
     <<"unused", "void">>, <<"reserved", "void">>}

\* a coupon of the step's first state is not the same row in its second
CouponTouched == \E c \in coupons : c \notin coupons'

\* C16: a coupon's status changes only along unused -> reserved, reserved ->
\* unused, reserved -> used, unused -> void and reserved -> void; a used and a
\* void coupon never change; a reserve, unreserve or void request either moves
\* one coupon along such a transition and appends exactly one event, or is
\* rejected and leaves the coupons and the event log as they were.
CouponLifecycle ==
    [][/\ \A c \in coupons, d \in coupons' :
              (c.coupon_code = d.coupon_code /\ c.status # d.status)
                  => <<c.status, d.status>> \in AllowedTransitions
       /\ \A c \in coupons : c.status \in {"used", "void"} => c \in coupons'
       /\ result'.kind \in {"admin_reserve_coupon", "admin_unreserve_coupon",
                             "admin_void_coupon"}
              => IF CouponTouched
                 THEN Len(coupon_events') = Len(coupon_events) + 1
                 ELSE coupon_events' = coupon_events]_vars

\* the step that ends the purchase of slot 1, by commit or by rollback
PurchaseEnds ==
    /\ txn[1].pc = "applied"
    /\ txn[1].kind = "purchase"
    /\ txn'[1].pc = "idle"

\* every candidate the generator would offer the next coupon is taken
CandidatesTaken == \A k \in 0..(MaxAttempts - 1) : uuid4(uuid_pos + k) \in CouponCodes

\* C17: a successful purchase of quantity q commits, together with ledger rows
\* of its tx_id, exactly one order of that tx_id with total_paid_cents =
\* unit_price_cents * q, exactly q new unused coupons whose codes are pairwise
\* distinct and were no coupon's code before, exactly q order items binding
\* those coupons to the order, and exactly one 'generated' event per coupon;
\* a purchase that meets 20 taken candidates in a row fails, and a failed
\* purchase applies nothing.
PurchaseCreatesCoupons ==
    [][PurchaseEnds =>
        LET r == txn[1]
            q == r.amount
            new == coupons' \ coupons
            codes == {c.coupon_code : c \in new}
            n == Len(coupon_events)
        IN /\ CandidatesTaken => result'.status = "PurchaseError"
           /\ IF result'.status = "ok"
              THEN /\ \E row \in ledger' \ ledger : row.tx_id = r.tx_id
                   /\ \E o \in orders' :
                         /\ orders' \ orders = {o}
                         /\ o.tx_id = r.tx_id
                         /\ o.quantity = q
                         /\ o.total_paid_cents = o.unit_price_cents * q
                   /\ coupons \subseteq coupons'
                   /\ Cardinality(new) = q
                   /\ Cardinality(codes) = q
                   /\ codes \cap CouponCodes = {}
                   /\ \A c \in new : c.status = "unused"
                   /\ order_items \subseteq order_items'
                   /\ order_items' \ order_items =
                          {[tx_id |-> r.tx_id, coupon_code |-> k] : k \in codes}
                   /\ Len(coupon_events') = n + q
                   /\ SubSeq(coupon_events', 1, n) = coupon_events
                   /\ \A k \in codes :
                          Cardinality({i \in (n + 1)..(n + q) :
                              /\ coupon_events'[i].coupon_code = k
                              /\ coupon_events'[i].event_type = "generated"}) = 1
              ELSE UNCHANGED <<walletVars, order_items, coupon_events>>]_vars

\* a purchase of two coupons is committed although the generator repeated the
\* first code for the second coupon
PurchaseCreatesCouponsWitness ==
    /\ result = [kind |-> "purchase", status |-> "ok"]
    /\ uuid_tape = <<1, 1, 2>>
    /\ \E o \in orders :
          /\ o.quantity = 2
          /\ Cardinality({i \in order_items : i.tx_id = o.tx_id}) = 2
    /\ {1, 2} \subseteq CouponCodes

\* C18: a seller_generate_coupons request of seller S either completes a paid
\* purchase (for S itself or a direct child of S as the owner) or is refused
\* with a 4xx answer before any change (an owner that is neither, a purchase
\* the wallet or the prices do not allow).
SellerGenerateCompletes ==
    result.kind = "seller_generate_coupons"
        => result.status \in {"ok", "HTTP400", "HTTP403", "HTTP404"}

\* the path text of a chain of ids: u<id> labels joined with dots
RECURSIVE PathText(_)
PathText(ids) ==
    IF Len(ids) = 1 THEN <<"u">> \o Str(ids[1])
    ELSE PathText(SubSeq(ids, 1, Len(ids) - 1)) \o <<".", "u">> \o Str(ids[Len(ids)])

\* C19: every user's path is its parent's path followed by the label u<id>
\* (the label alone without a parent) and its depth is the parent's depth + 1
\* (0 without a parent); the path has depth + 1 labels, which name the user's
\* ancestors from the root down to itself; and no step changes the path, the
\* depth or the parent of a user that exists.
PathIntegrity ==
    /\ [](\A u \in exists :
            /\ nlevel(user_path[u]) = user_depth[u] + 1
            /\ user_path[u] = PathText(path(u))
            /\ Labels(user_path[u]) = [i \in 1..Len(path(u)) |-> <<"u">> \o Str(path(u)[i])]
            /\ IF parent_id(u) = NoUser
               THEN user_depth[u] = 0 /\ user_path[u] = <<"u">> \o Str(u)
               ELSE /\ parent_id(u) \in exists
                    /\ user_depth[u] = user_depth[parent_id(u)] + 1
                    /\ user_path[u] = user_path[parent_id(u)] \o <<".", "u">> \o Str(u))
    /\ [][\A u \in exists :
            /\ user_path'[u] = user_path[u]
            /\ user_depth'[u] = user_depth[u]
            /\ user_parent'[u] = user_parent[u]]_vars

\* a create request has just put a user two levels below the root, under a
\* parent that is not the root and with an id the sequence reached after a gap
PathIntegrityWitness ==
    /\ result.status = "ok"
    /\ result.kind \in {"admin_create_seller", "seller_create_child"}
    /\ \E u \in exists :
          /\ user_depth[u] = 2
          /\ parent_id(u) # NoUser
          /\ parent_id(u) # u - 1
          /\ nlevel(user_path[u]) = 3

\* C20: a topup commits only for an admin actor and a positive amount, adds
\* exactly the amount to the target's balance and exactly one ledger row, of
\* kind topup and that amount; hence every tx_id whose rows do not sum to zero
\* consists of a single topup row created by an admin.
TopupOnlyMint ==
    /\ [][\A t \in Slots :
            (Commits(t) /\ txn[t].kind = "topup") =>
                LET r == txn[t]
                IN /\ role(r.actor) = "admin"
                   /\ r.amount > 0
                   /\ balance_cents'[r.to_user_id] = balance_cents[r.to_user_id] + r.amount
                   /\ \A u \in UserIds \ {r.to_user_id} : balance_cents'[u] = balance_cents[u]
                   /\ ledger \subseteq ledger'
                   /\ ledger' \ ledger =
                          {Row(r.tx_id, r.to_user_id, "topup", r.amount, r.actor)}]_vars
    /\ [](\A x \in {r.tx_id : r \in ledger} :
            SumRows(RowsOfTx(x)) # 0 =>
                \E r \in ledger :
                    /\ RowsOfTx(x) = {r}
                    /\ r.entry_kind = "topup"
                    /\ r.related_user_id # NoUser
                    /\ role(r.related_user_id) = "admin")

(***************************************************************************)
(* The transfers between a parent and its direct child: the four helpers   *)
(* of wallet.py and the route POST /wallet/adjust-child-balance.           *)
(***************************************************************************)
NextTransfers ==
    \/ \E a, u \in UserIds, n \in Amounts : transfer_to_child(1, a, u, n)
    \/ \E a, u \in UserIds, n \in Amounts : transfer_from_child(1, a, u, n)
    \/ \E a, u \in UserIds, n \in Amounts : adjust_child_balance_up(1, a, u, n)
    \/ \E a, u \in UserIds, n \in Amounts : adjust_child_balance_down(1, a, u, n)
    \/ \E a, u \in UserIds, n \in Amounts : adjust_direct_child_balance(1, a, u, n)
    \/ _ensure_wallet_account(1)
    \/ LockRow(1)
    \/ Apply(1)
    \/ Finish(1)

SpecTransfers == Init /\ [][NextTransfers]_vars

\* the step is a call of one of the four helpers by parent_user for the child
ChildTransferCall(parent_user, child_user_id, amount_cents) ==
    \/ transfer_to_child(1, parent_user, child_user_id, amount_cents)
    \/ transfer_from_child(1, parent_user, child_user_id, amount_cents)
    \/ adjust_child_balance_up(1, parent_user, child_user_id, amount_cents)
    \/ adjust_child_balance_down(1, parent_user, child_user_id, amount_cents)

\* C21: transfer_to_child, transfer_from_child, adjust_child_balance_up and
\* adjust_child_balance_down, called with a positive amount for an existing
\* child by a user who is not the child's direct parent, fail with
\* ForbiddenTransfer and leave every balance and the ledger unchanged.
ForbiddenTransferRaised ==
    [][\A a, u \in UserIds, n \in Amounts :
        (n > 0 /\ u \in exists /\ parent_id(u) # a /\ ChildTransferCall(a, u, n))
            => /\ result'.status = "ForbiddenTransfer"
               /\ UNCHANGED <<balance_cents, ledger>>]_vars

\* C23: when a POST /wallet/adjust-child-balance request with
\* target_balance_cents = t for a direct child of the caller commits, the
\* child's balance is t and the caller's balance has grown by the difference
\* between the child's previous balance and t.
AdjustReachesTarget ==
    [][(Commits(1) /\ txn[1].meta_kind = "adjust_child_balance_down") =>
        LET child == txn[1].from_user_id
            parent == txn[1].to_user_id
            target == txn[1].amount
        IN /\ balance_cents'[child] = target
           /\ balance_cents'[parent] = balance_cents[parent] + (balance_cents[child] - target)]_vars

(***************************************************************************)
(* wallet.get_balance, next to the requests that create a missing account. *)
(***************************************************************************)
\* GET /wallet/me, GET /admin/wallet/balance/{user_id}: the call reaches
\* _ensure_wallet_account
get_balance(t, user_id) ==
    /\ txn[t].pc = "idle"
    /\ \A s \in Slots : s < t => txn[s].pc # "idle"
    /\ txn' = [txn EXCEPT ![t] = [Idle EXCEPT !.pc = "ensure", !.kind = "get_balance",
                                              !.to_user_id = user_id, !.ids = {user_id}]]
    /\ UNCHANGED <<walletVars, pricingVars, treeVars, couponVars, nextTx, result>>

\* wallet.py 83-85: the plain SELECT of the account and scalar_one(); the
\* session then ends, and whether it commits the inserted account is decided
\* by core/db.get_db
GetBalanceReturns(t) ==
    /\ txn[t].pc = "select"
    /\ LET u == txn[t].to_user_id IN
       IF u \notin wallet_accounts /\ u \notin txn[t].created
       THEN Rollback(t, "NoResultFound")
       ELSE /\ \E commits \in BOOLEAN :
                 wallet_accounts' = IF commits THEN wallet_accounts \cup txn[t].created
                                    ELSE wallet_accounts
            /\ balance_cents' = [v \in UserIds |->
                   IF v \in wallet_accounts' \ wallet_accounts THEN 0 ELSE balance_cents[v]]
            /\ txn' = [txn EXCEPT ![t] = Idle]
            /\ result' = [kind |-> "get_balance", status |-> "ok"]
            /\ UNCHANGED <<exists, is_active, ledger, orders, coupons, pricingVars, treeVars,
                           couponVars, nextTx>>

NextBalance ==
    \/ \E t \in Slots, u \in UserIds : get_balance(t, u)
    \/ \E t \in Slots, a, u \in UserIds, n \in Amounts : admin_topup(t, a, u, n)
    \/ \E t \in Slots : _ensure_wallet_account(t)
    \/ \E t \in Slots : InsertReturns(t)
    \/ \E t \in Slots : GetBalanceReturns(t)
    \/ \E t \in Slots : LockRow(t)
    \/ \E t \in Slots : Apply(t)
    \/ \E t \in Slots : Finish(t)

SpecBalance == Init /\ [][NextBalance]_vars

\* C22: a get_balance call for a user that exists ends by returning the
\* user's account (created with balance 0 when it was missing) and never by
\* an error, whatever other requests create the same account meanwhile.
GetBalanceNeverFails ==
    [][\A t \in Slots :
        (txn[t].kind = "get_balance" /\ txn'[t].pc = "idle" /\ txn[t].to_user_id \in exists)
            => /\ result'.status = "ok"
               /\ txn[t].to_user_id \in wallet_accounts \cup txn[t].created]_vars

(***************************************************************************)
(* Purchases over every price table of the chain, the prices at rest.      *)
(***************************************************************************)
\* largest price of a table
MaxQuote == 2

\* <<base, 1->2, 2->3, 3->4>>; user 4 may have no price
QuoteTables ==
    (0..MaxQuote) \X (0..MaxQuote) \X (0..MaxQuote) \X ((0..MaxQuote) \cup {NoPrice})

InitQuote ==
    /\ InitWallet
    /\ \E pr \in QuoteTables : base_price = pr[1] /\ edges = EdgesOf(pr)
    /\ seller_plan_prices = [u \in UserIds |-> NoPrice]

NextQuote ==
    \/ \E a \in UserIds, p \in PlanIds, q \in Quantities :
            purchase_plan_and_distribute(1, a, p, q)
    \/ _ensure_wallet_account(1)
    \/ LockRow(1)
    \/ Apply(1)
    \/ Finish(1)

SpecQuote == InitQuote /\ [][NextQuote]_vars

\* what ancestor a of buyer b sells the plan for on b's chain, and what it pays
SellPrice(a, b, plan_id) == _get_edge_price_cents(a, ChildOnChain(a, b), plan_id)

CostPrice(a, plan_id) ==
    IF parent_id(a) = NoUser THEN _get_admin_base_price_cents(plan_id)
    ELSE _get_edge_price_cents(parent_id(a), a, plan_id)

\* some ancestor of b, the root included, sells below its own cost
NegativeMarginOnChain(b, plan_id) ==
    \E a \in Ancestry(b) \ {b} :
        /\ SellPrice(a, b, plan_id) # NoPrice
        /\ CostPrice(a, plan_id) # NoPrice
        /\ SellPrice(a, b, plan_id) < CostPrice(a, plan_id)

\* C24: a purchase on a chain where some seller, the root included, sells
\* below its own cost fails with a purchase error and changes nothing; a
\* purchase that commits credits every ancestor exactly quantity times its
\* margin (the root its base price besides), and no margin is negative: no
\* amount applied to a balance or written to the ledger comes from a margin
\* raised to zero.
NegativeMarginRefused ==
    [][/\ \A b \in UserIds, p \in PlanIds, q \in 1..MaxQty :
            (/\ parent_id(b) # NoUser
             /\ NegativeMarginOnChain(b, p)
             /\ purchase_plan_and_distribute(1, b, p, q))
                => /\ result' = [kind |-> "purchase", status |-> "PurchaseError"]
                   /\ UNCHANGED <<walletVars, txn>>
       /\ (Commits(1) /\ txn[1].kind = "purchase") =>
            LET r == txn[1]
                b == r.from_user_id
            IN /\ ~NegativeMarginOnChain(b, r.plan_id)
               /\ \A u \in UserIds :
                     /\ balance_cents'[u] - balance_cents[u] =
                            ExpectedPurchaseDelta(b, r.plan_id, r.amount, u)
                     /\ SumRows({x \in ledger' \ ledger : x.user_id = u}) =
                            ExpectedPurchaseDelta(b, r.plan_id, r.amount, u)]_vars

\* the root sells to user 2 below the base price while every seller below
\* keeps a margin, and the purchase was refused with nothing written
NegativeMarginRefusedWitness ==
    /\ result = [kind |-> "purchase", status |-> "PurchaseError"]
    /\ EdgePrice(1, 2) < base_price
    /\ EdgePrice(2, 3) > EdgePrice(1, 2)
    /\ EdgePrice(3, 4) > EdgePrice(2, 3)
    /\ txn[1].pc = "idle"
    /\ orders = {}

(***************************************************************************)
(* purchases.py 102-162 statement by statement: every price is read by a   *)
(* SELECT of its own, under READ COMMITTED and without a lock, so that a   *)
(* pricing request of another session can commit between two reads.        *)
(***************************************************************************)
MaxWalkPrice == 2       \* largest price a concurrent pricing request writes
WalkPrices == 0..MaxWalkPrice
MaxWalkTx == 1          \* purchases that get through their walk

\* lines 102-108: quantity, plan and parent of the buyer
begin_purchase(t, buyer, plan_id, quantity) ==
    /\ txn[t].pc = "idle" /\ nextTx < MaxWalkTx
    /\ get_current_user(buyer)
    /\ IF quantity < 1 THEN Reject("purchase", "PurchaseError")
       ELSE IF ~_get_plan(plan_id) THEN Reject("purchase", "PurchaseError")
       ELSE IF parent_id(buyer) = NoUser THEN Reject("purchase", "PurchaseError")
       ELSE /\ txn' = [txn EXCEPT ![t] = [Idle EXCEPT !.pc = "read_unit",
                                                      !.kind = "purchase",
                                                      !.from_user_id = buyer,
                                                      !.amount = quantity,
                                                      !.plan_id = plan_id]]
            /\ UNCHANGED <<walletVars, pricingVars, treeVars, couponVars, nextTx, result>>

\* line 111: unit_price_cents
ReadUnitPrice(t) ==
    /\ txn[t].pc = "read_unit"
    /\ LET r == txn[t]
           v == _get_edge_price_cents(parent_id(r.from_user_id), r.from_user_id, r.plan_id)
       IN IF v = NoPrice THEN Rollback(t, "PurchaseError")
          ELSE /\ txn' = [txn EXCEPT ![t].pc = "read_base", ![t].unit_price_cents = v]
               /\ UNCHANGED <<walletVars, pricingVars, treeVars, couponVars, nextTx, result>>

\* lines 115-120: base_cents, read once; the walk starts at the buyer
ReadBasePrice(t) ==
    /\ txn[t].pc = "read_base"
    /\ LET r == txn[t]
           v == _get_admin_base_price_cents(r.plan_id)
       IN IF v = NoPrice THEN Rollback(t, "PurchaseError")
          ELSE /\ txn' = [txn EXCEPT ![t].pc = "read_sell", ![t].base_cents = v,
                                     ![t].current_child = r.from_user_id]
               /\ UNCHANGED <<walletVars, pricingVars, treeVars, couponVars, nextTx, result>>

\* lines 123-129: the parent of current_child and its sell_price
ReadSellPrice(t) ==
    /\ txn[t].pc = "read_sell"
    /\ LET r == txn[t]
           p == parent_id(r.current_child)
           v == _get_edge_price_cents(p, r.current_child, r.plan_id)
       IN IF p = NoUser \/ p \notin exists THEN Rollback(t, "PurchaseError")
          ELSE IF v = NoPrice THEN Rollback(t, "PurchaseError")
          ELSE /\ txn' = [txn EXCEPT ![t].pc = "read_cost", ![t].sell_price = v]
               /\ UNCHANGED <<walletVars, pricingVars, treeVars, couponVars, nextTx, result>>

\* lines 131-162: the cost of the parent, the profit of the level, and either
\* the next level or the end of the walk with uuid4()
ReadCost(t) ==
    /\ txn[t].pc = "read_cost"
    /\ LET r == txn[t]
           p == parent_id(r.current_child)
           cost == IF role(p) = "admin" THEN r.base_cents
                   ELSE IF parent_id(p) = NoUser THEN NoPrice
                   ELSE _get_edge_price_cents(parent_id(p), p, r.plan_id)
           profit == LevelProfit(r.sell_price, cost)
           cr1 == IF profit > 0 THEN AddCredit(r.credits, p, profit) ELSE r.credits
           cr2 == AddCredit(cr1, p, r.base_cents)
       IN IF cost = NoPrice THEN Rollback(t, "PurchaseError")
          ELSE IF profit < 0 THEN Rollback(t, "PurchaseError")
          ELSE IF role(p) = "admin"
          THEN /\ nextTx' = nextTx + 1
               /\ txn' = [txn EXCEPT ![t] = [r EXCEPT !.pc = "ensure",
                                                      !.tx_id = nextTx + 1,
                                                      !.credits = cr2,
                                                      !.ids = {r.from_user_id} \cup DOMAIN cr2]]
               /\ UNCHANGED <<walletVars, pricingVars, treeVars, couponVars, result>>
          ELSE /\ txn' = [txn EXCEPT ![t].pc = "read_sell", ![t].credits = cr1,
                                     ![t].current_child = p]
               /\ UNCHANGED <<walletVars, pricingVars, treeVars, couponVars, nextTx, result>>

NextWalk ==
    \/ \E a \in UserIds, q \in Quantities : begin_purchase(1, a, 1, q)
    \/ ReadUnitPrice(1)
    \/ ReadBasePrice(1)
    \/ ReadSellPrice(1)
    \/ ReadCost(1)
    \/ _ensure_wallet_account(1)
    \/ LockRow(1)
    \/ Apply(1)
    \/ Finish(1)
    \/ \E a \in UserIds, p \in WalkPrices : admin_upsert_base_price(a, p)
    \/ \E a, c \in UserIds, p \in WalkPrices : upsert_edge_price_seller(a, c, p)

SpecWalk == Init /\ [][NextWalk]_vars

\* the walk of slot t ends in this step: the distribution is computed
DistributionComputed(t) ==
    /\ txn[t].kind = "purchase"
    /\ txn[t].pc = "read_cost"
    /\ txn'[t].pc = "ensure"

\* the first balance UPDATE of the purchase of slot t is issued in this step
FirstUpdateIssued(t) ==
    /\ txn[t].kind = "purchase"
    /\ txn[t].pc = "locked"
    /\ txn'[t].pc = "applied"

\* C25: a purchase goes through its phases in the order Validated, Locked,
\* Computed, Applied, Committed: the account locks are held when the
\* distribution has been computed, and the conservation check has passed
\* when the first balance update is issued.
PurchasePhasesInOrder ==
    [][\A t \in Slots :
        /\ DistributionComputed(t) =>
              /\ txn'[t].ids # {}
              /\ txn'[t].held = txn'[t].ids
        /\ FirstUpdateIssued(t) => ~ConservationMismatch(txn[t])]_vars

\* the margin of ancestor a on one unit bought by b
Margin(a, b, plan_id) == SellPrice(a, b, plan_id) - CostPrice(a, plan_id)

\* the rows of kind k that the step adds to the ledger for user u
NewRowsOf(u, k) == {x \in ledger' \ ledger : x.user_id = u /\ x.entry_kind = k}

\* C26: the ledger group of a successful purchase has exactly one
\* purchase_debit (the buyer, minus the total paid), exactly one
\* admin_base_credit on the root of base price times quantity, a separate
\* profit_credit on the root exactly when the root's margin is positive, and
\* exactly one profit_credit of the scaled margin for every other ancestor
\* with a positive margin, none for a zero margin; no other row.
PurchaseLedgerGroup ==
    [][(Commits(1) /\ txn[1].kind = "purchase") =>
        LET r == txn[1]
            b == r.from_user_id
            q == r.amount
            pl == r.plan_id
            G == ledger' \ ledger
        IN /\ \A x \in G : x.tx_id = r.tx_id
           /\ {x \in G : x.entry_kind = "purchase_debit"} =
                 {Row(r.tx_id, b, "purchase_debit",
                      -(q * _get_edge_price_cents(parent_id(b), b, pl)), parent_id(b))}
           /\ {x \in G : x.entry_kind = "admin_base_credit"} =
                 {Row(r.tx_id, 1, "admin_base_credit",
                      q * _get_admin_base_price_cents(pl), b)}
           /\ \A a \in Ancestry(b) \ {b} :
                 NewRowsOf(a, "profit_credit") =
                     IF Margin(a, b, pl) > 0
                     THEN {Row(r.tx_id, a, "profit_credit", q * Margin(a, b, pl), b)}
                     ELSE {}
           /\ \A x \in G :
                 /\ x.entry_kind \in {"purchase_debit", "admin_base_credit", "profit_credit"}
                 /\ x.entry_kind = "profit_credit" => x.user_id \in Ancestry(b) \ {b}]_vars

\* user 4 has bought: the root has its base credit and a profit row of its
\* own, seller 2 with a margin of zero has no row, seller 3 has one
PurchaseLedgerGroupWitness ==
    \E x \in ledger :
        /\ x.entry_kind = "purchase_debit" /\ x.user_id = 4
        /\ EdgePrice(1, 2) > base_price
        /\ EdgePrice(2, 3) = EdgePrice(1, 2)
        /\ EdgePrice(3, 4) > EdgePrice(2, 3)
        /\ \E y \in RowsOfTx(x.tx_id) : y.user_id = 1 /\ y.entry_kind = "admin_base_credit"
        /\ \E y \in RowsOfTx(x.tx_id) : y.user_id = 1 /\ y.entry_kind = "profit_credit"
        /\ \E y \in RowsOfTx(x.tx_id) : y.user_id = 3 /\ y.entry_kind = "profit_credit"
        /\ ~\E y \in RowsOfTx(x.tx_id) : y.user_id = 2

\* C27: in every reachable state every pricing edge (parent_user_id,
\* child_user_id, plan_id) joins an existing user to its direct parent,
\* whichever operation wrote the row.
EdgesJoinDirectParent ==
    \A k \in EdgeKeys :
        edges[k] # NoEdge => (k[2] \in exists /\ parent_id(k[2]) = k[1])

\* C28: while no pricing row changes during the call, the scaled credits of a
\* purchase sum to the buyer's total debit, for every depth of the chain,
\* every price table that passes the negative-profit check and every
\* quantity >= 1: a purchase that got through its walk never fails the
\* conservation check.
CreditsSumToDebit ==
    \A t \in Slots :
        txn[t].kind = "purchase" =>
            LET r == txn[t]
                b == r.from_user_id
            IN /\ r.amount >= 1
               /\ SumOver(ScaledCredits(r), DOMAIN r.credits) =
                      r.amount * _get_edge_price_cents(parent_id(b), b, r.plan_id)
               /\ total_paid_cents(r) =
                      r.amount * _get_edge_price_cents(parent_id(b), b, r.plan_id)
               /\ ~ConservationMismatch(r)

\* user 4 buys two units three levels below the root; the root and seller
\* 3 earn a margin, seller 2 earns none, and the writes have been issued
CreditsSumToDebitWitness ==
    /\ txn[1].kind = "purchase"
    /\ txn[1].pc = "applied"
    /\ txn[1].from_user_id = 4
    /\ txn[1].amount = 2
    /\ txn[1].plan_id = 1
    /\ DOMAIN txn[1].credits = {1, 3}
    /\ txn[1].credits[1] > base_price
    /\ EdgePrice(2, 3) = EdgePrice(1, 2)

\* the purchase of slot t ends in this step, with a commit or with an error
PurchaseReturns(t) ==
    /\ txn[t].kind = "purchase"
    /\ txn'[t].pc = "idle"

\* C29: a purchase whose price reads see different committed prices, because
\* a pricing request of another session committed an edge or base price of
\* the buyer's chain between two of them, either fails and writes nothing,
\* or commits a ledger group that sums to zero and whose credits equal the
\* debit; the balances move by the same amounts.
PurchaseUnderPriceChange ==
    [][\A t \in Slots :
        PurchaseReturns(t) =>
            LET G == ledger' \ ledger
                debit == {x \in G : x.entry_kind = "purchase_debit"}
            IN \/ /\ result'.status # "ok"
                  /\ UNCHANGED <<walletVars, order_items, coupon_events>>
               \/ /\ result' = [kind |-> "purchase", status |-> "ok"]
                  /\ Cardinality(debit) = 1
                  /\ \A x \in G : x.tx_id = txn[t].tx_id
                  /\ SumRows(G) = 0
                  /\ SumRows(G \ debit) = -SumRows(debit)
                  /\ SumRows(G \ debit) = total_paid_cents(txn[t])
                  /\ SumOver([u \in UserIds |-> balance_cents'[u] - balance_cents[u]],
                             UserIds) = 0
                  /\ \A u \in UserIds :
                        balance_cents'[u] - balance_cents[u] =
                            SumRows({x \in G : x.user_id = u})]_vars

\* the writes of a purchase have been issued with credits that differ from
\* its debit: a price of the chain was changed between two reads
PurchaseUnderPriceChangeWitness ==
    /\ txn[1].kind = "purchase"
    /\ txn[1].pc = "applied"
    /\ SumOver(ScaledCredits(txn[1]), DOMAIN txn[1].credits) # total_paid_cents(txn[1])

\* the sum of the balances of all wallet accounts
TotalBalance == SumOver(balance_cents, wallet_accounts)

\* the sum of the amounts of all topup rows of the ledger
TotalTopups == SumRows({r \in ledger : r.entry_kind = "topup"})

\* C30: in every reachable state the sum of balance_cents over all wallet
\* accounts equals the sum of amount_cents over all topup ledger rows:
\* purchases, transfers, set-balance and delete or deactivate only move money
\* between accounts.
MoneySupplyMatchesTopups == TotalBalance = TotalTopups

====
